---------------------------- MODULE Spec2Model ----------------------------
(***************************************************************************)
(* Section registry, section contents I/O and AES-CTR cipher of the BFD    *)
(* section module (section.c with the GAP encryption support).             *)
(***************************************************************************)
EXTENDS Integers, Sequences, FiniteSets, TLC

VARIABLES
  section_id,    \* static unsigned int section_id
  bfds,          \* the bfd objects: list head and tail, count, hash table, flags
  sects,         \* every struct section_hash_entry allocated so far
  bfd_std_section, \* asection _bfd_std_section[4]
  backend,       \* the bytes the format backend holds for each section
  EncryptInfo,   \* static EncryptInfoT EncryptInfo
  bfd_error,     \* the value of the last bfd_set_error
  ret,           \* the last call: its name, arguments and return value
  created,       \* history: the sections whose creation succeeded, in order
  wrote,         \* history: the owners on which a write has returned TRUE
  test           \* the cipher test driver (TestAES)

vars == << section_id, bfds, sects, bfd_std_section, backend, EncryptInfo, bfd_error, ret,
           created, wrote, test >>

(***************************************************************************)
(* AES-CTR cipher engine                                                   *)
(***************************************************************************)

AES_BLOCKLEN == 16
AES_KEYLEN == 16
AES_Nb == 4
AES_Nk == 4
AES_Nr == 10

AES_sbox ==
  <<  99, 124, 119, 123, 242, 107, 111, 197,  48,   1, 103,  43, 254, 215, 171, 118,
     202, 130, 201, 125, 250,  89,  71, 240, 173, 212, 162, 175, 156, 164, 114, 192,
     183, 253, 147,  38,  54,  63, 247, 204,  52, 165, 229, 241, 113, 216,  49,  21,
       4, 199,  35, 195,  24, 150,   5, 154,   7,  18, 128, 226, 235,  39, 178, 117,
       9, 131,  44,  26,  27, 110,  90, 160,  82,  59, 214, 179,  41, 227,  47, 132,
      83, 209,   0, 237,  32, 252, 177,  91, 106, 203, 190,  57,  74,  76,  88, 207,
     208, 239, 170, 251,  67,  77,  51, 133,  69, 249,   2, 127,  80,  60, 159, 168,
      81, 163,  64, 143, 146, 157,  56, 245, 188, 182, 218,  33,  16, 255, 243, 210,
     205,  12,  19, 236,  95, 151,  68,  23, 196, 167, 126,  61, 100,  93,  25, 115,
      96, 129,  79, 220,  34,  42, 144, 136,  70, 238, 184,  20, 222,  94,  11, 219,
     224,  50,  58,  10,  73,   6,  36,  92, 194, 211, 172,  98, 145, 149, 228, 121,
     231, 200,  55, 109, 141, 213,  78, 169, 108,  86, 244, 234, 101, 122, 174,   8,
     186, 120,  37,  46,  28, 166, 180, 198, 232, 221, 116,  31,  75, 189, 139, 138,
     112,  62, 181, 102,  72,   3, 246,  14,  97,  53,  87, 185, 134, 193,  29, 158,
     225, 248, 152,  17, 105, 217, 142, 148, 155,  30, 135, 233, 206,  85,  40, 223,
     140, 161, 137,  13, 191, 230,  66, 104,  65, 153,  45,  15, 176,  84, 187,  22 >>

XorNibble ==
  << << 0,  1,  2,  3,  4,  5,  6,  7,  8,  9, 10, 11, 12, 13, 14, 15>>,
     << 1,  0,  3,  2,  5,  4,  7,  6,  9,  8, 11, 10, 13, 12, 15, 14>>,
     << 2,  3,  0,  1,  6,  7,  4,  5, 10, 11,  8,  9, 14, 15, 12, 13>>,
     << 3,  2,  1,  0,  7,  6,  5,  4, 11, 10,  9,  8, 15, 14, 13, 12>>,
     << 4,  5,  6,  7,  0,  1,  2,  3, 12, 13, 14, 15,  8,  9, 10, 11>>,
     << 5,  4,  7,  6,  1,  0,  3,  2, 13, 12, 15, 14,  9,  8, 11, 10>>,
     << 6,  7,  4,  5,  2,  3,  0,  1, 14, 15, 12, 13, 10, 11,  8,  9>>,
     << 7,  6,  5,  4,  3,  2,  1,  0, 15, 14, 13, 12, 11, 10,  9,  8>>,
     << 8,  9, 10, 11, 12, 13, 14, 15,  0,  1,  2,  3,  4,  5,  6,  7>>,
     << 9,  8, 11, 10, 13, 12, 15, 14,  1,  0,  3,  2,  5,  4,  7,  6>>,
     <<10, 11,  8,  9, 14, 15, 12, 13,  2,  3,  0,  1,  6,  7,  4,  5>>,
     <<11, 10,  9,  8, 15, 14, 13, 12,  3,  2,  1,  0,  7,  6,  5,  4>>,
     <<12, 13, 14, 15,  8,  9, 10, 11,  4,  5,  6,  7,  0,  1,  2,  3>>,
     <<13, 12, 15, 14,  9,  8, 11, 10,  5,  4,  7,  6,  1,  0,  3,  2>>,
     <<14, 15, 12, 13, 10, 11,  8,  9,  6,  7,  4,  5,  2,  3,  0,  1>>,
     <<15, 14, 13, 12, 11, 10,  9,  8,  7,  6,  5,  4,  3,  2,  1,  0>> >>

AES_Rcon == << 141, 1, 2, 4, 8, 16, 32, 64, 128, 27, 54 >>

\* the C operator ^ on two uint8_t values
Xor(a, b) ==
  XorNibble[(a \div 16) + 1][(b \div 16) + 1] * 16
    + XorNibble[(a % 16) + 1][(b % 16) + 1]

\* C arrays are 0-based, sequences 1-based
At(s, i) == s[i + 1]

AES_getSBoxValue(num) == At(AES_sbox, num)

RECURSIVE KeyExpansionFrom(_, _)
KeyExpansionFrom(RoundKey, i) ==
  IF i >= AES_Nb * (AES_Nr + 1) THEN RoundKey
  ELSE
    LET k  == (i - 1) * 4
        t0 == At(RoundKey, k + 0)
        t1 == At(RoundKey, k + 1)
        t2 == At(RoundKey, k + 2)
        t3 == At(RoundKey, k + 3)
        tempa == IF i % AES_Nk = 0
                 THEN << Xor(AES_getSBoxValue(t1), At(AES_Rcon, i \div AES_Nk)),
                         AES_getSBoxValue(t2),
                         AES_getSBoxValue(t3),
                         AES_getSBoxValue(t0) >>
                 ELSE << t0, t1, t2, t3 >>
        kk == (i - AES_Nk) * 4
    IN  KeyExpansionFrom(RoundKey \o
           << Xor(At(RoundKey, kk + 0), tempa[1]),
              Xor(At(RoundKey, kk + 1), tempa[2]),
              Xor(At(RoundKey, kk + 2), tempa[3]),
              Xor(At(RoundKey, kk + 3), tempa[4]) >>, i + 1)

AES_KeyExpansion(Key) == KeyExpansionFrom(SubSeq(Key, 1, 4 * AES_Nk), AES_Nk)

\* the 16 bytes of an AES_state_t, computed byte by byte
AES_state_t(f) == SubSeq(f, 1, 4 * AES_Nb)

AES_AddRoundKey(round, state, RoundKey) ==
  AES_state_t([k \in 1..(4 * AES_Nb) |->
     Xor(state[k], At(RoundKey, round * AES_Nb * 4 + (k - 1)))])

AES_SubBytes(state) ==
  AES_state_t([k \in 1..(4 * AES_Nb) |-> AES_getSBoxValue(state[k])])

\* (*state)[i][j] is byte 4*i+j of the block; row j of the state is
\* rotated left by j columns
AES_ShiftRows(state) ==
  AES_state_t([k \in 1..(4 * AES_Nb) |->
     LET i == (k - 1) \div 4
         j == (k - 1) % 4
     IN  At(state, 4 * ((i + j) % AES_Nb) + j)])

AES_xtime(x) == Xor((x * 2) % 256, ((x \div 128) % 2) * 27)

\* column i: (*state)[i][j] ^= xtime((*state)[i][j] ^ (*state)[i][j+1]) ^ Tmp
AES_MixColumns(state) ==
  AES_state_t([k \in 1..(4 * AES_Nb) |->
     LET i    == (k - 1) \div 4
         j    == (k - 1) % 4
         a(c) == At(state, 4 * i + c)
         Tmp  == Xor(Xor(Xor(a(0), a(1)), a(2)), a(3))
         Tm   == AES_xtime(Xor(a(j), a((j + 1) % 4)))
     IN  Xor(a(j), Xor(Tm, Tmp))])

\* for (round = 1; ; ++round) { SubBytes; ShiftRows; if (round == AES_Nr) break;
\*                              MixColumns; AddRoundKey(round) }
\* lp is the loop state: the counter round and the block state.
RECURSIVE CipherRounds(_, _)
CipherRounds(lp, RoundKey) ==
  LET sr == AES_ShiftRows(AES_SubBytes(lp.state))
  IN  IF lp.round = AES_Nr THEN sr
      ELSE CipherRounds(
             [round |-> lp.round + 1,
              state |-> AES_AddRoundKey(lp.round, AES_MixColumns(sr), RoundKey)],
             RoundKey)

AES_Cipher(state, RoundKey) ==
  AES_AddRoundKey(AES_Nr,
    CipherRounds([round |-> 1, state |-> AES_AddRoundKey(0, state, RoundKey)],
                 RoundKey),
    RoundKey)

\* a byte of memory that was never written (uint8_t buffer[16] on the stack,
\* ctx->Iv before AES_ctx_set_iv)
Uninit == -1
UninitBlock == [k \in 1..AES_BLOCKLEN |-> Uninit]

\* a keystream combined with the data by addition, which is not its own inverse
AddStream(b, k) == IF b = Uninit \/ k = Uninit THEN Uninit ELSE (b + k) % 256

\* buf[i] ^ buffer[bi]; a keystream byte that was never generated gives an
\* indeterminate result
XorStream(b, k) == IF b = Uninit \/ k = Uninit THEN Uninit ELSE Xor(b, k)

\* AES_ctx_t: RoundKey[AES_keyExpSize], Iv[AES_BLOCKLEN]
AES_init_ctx(ctx, key) == [ctx EXCEPT !.RoundKey = AES_KeyExpansion(key)]

AES_ctx_set_iv(ctx, iv, nounce) ==
  [ctx EXCEPT !.Iv = [i \in 1..AES_BLOCKLEN |-> Xor(iv[i], nounce[i])]]

\* an increment of the last byte alone, without carry
IncrementIvNoCarry(Iv, bi) == [Iv EXCEPT ![bi + 1] = (At(Iv, bi) + 1) % 256]

\* for (bi = 15; bi >= 0; --bi) { if (Iv[bi] == 255) { Iv[bi] = 0; continue; }
\*                                Iv[bi] += 1; break; }
RECURSIVE IncrementIv(_, _)
IncrementIv(Iv, bi) ==
  IF bi < 0 THEN Iv
  ELSE IF At(Iv, bi) = 255
       THEN IncrementIv([Iv EXCEPT ![bi + 1] = 0], bi - 1)
       ELSE [Iv EXCEPT ![bi + 1] = At(Iv, bi) + 1]

\* Loop state of the two CTR functions: the index i, ctx->Iv, the keystream
\* block buffer[], the index bi into it, and buf[].
\* One iteration of the keystream loop (lines 1136-1152, 1092-1108).
XcryptByte(st, RoundKey) ==
  LET regen == st.bi = AES_BLOCKLEN
      buffer == IF regen THEN AES_Cipher(st.Iv, RoundKey) ELSE st.buffer
      bi == IF regen THEN 0 ELSE st.bi
  IN  [i      |-> st.i + 1,
       Iv     |-> IF regen THEN IncrementIv(st.Iv, AES_BLOCKLEN - 1) ELSE st.Iv,
       buffer |-> buffer,
       bi     |-> bi + 1,
       buf    |-> [st.buf EXCEPT
                     ![st.i + 1] = XorStream(At(st.buf, st.i), At(buffer, bi))]]

RECURSIVE XcryptLoop(_, _, _)
XcryptLoop(st, RoundKey, length) ==
  IF st.i < length
  THEN XcryptLoop(XcryptByte(st, RoundKey), RoundKey, length)
  ELSE st

\* a seek that does not count the blocks it passes
SkipByteKeepIv(st, RoundKey, from) ==
  LET regen == st.bi = AES_BLOCKLEN
  IN  [i      |-> st.i + 1,
       Iv     |-> st.Iv,
       buffer |-> IF regen /\ (st.i + AES_BLOCKLEN) >= from
                  THEN AES_Cipher(st.Iv, RoundKey) ELSE st.buffer,
       bi     |-> (IF regen THEN 0 ELSE st.bi) + 1,
       buf    |-> st.buf]

\* One iteration of the seek loop (lines 1119-1135).
SkipByte(st, RoundKey, from) ==
  LET regen == st.bi = AES_BLOCKLEN
  IN  [i      |-> st.i + 1,
       Iv     |-> IF regen THEN IncrementIv(st.Iv, AES_BLOCKLEN - 1) ELSE st.Iv,
       buffer |-> IF regen /\ (st.i + AES_BLOCKLEN) >= from
                  THEN AES_Cipher(st.Iv, RoundKey) ELSE st.buffer,
       bi     |-> (IF regen THEN 0 ELSE st.bi) + 1,
       buf    |-> st.buf]

RECURSIVE SkipLoop(_, _, _)
SkipLoop(st, RoundKey, from) ==
  IF st.i < from
  THEN SkipLoop(SkipByte(st, RoundKey, from), RoundKey, from)
  ELSE st

\* Both return the context and the buffer as the call leaves them.
AES_CTR_xcrypt_buffer(ctx, buf, length) ==
  LET st == XcryptLoop([i |-> 0, Iv |-> ctx.Iv, buffer |-> UninitBlock,
                        bi |-> AES_BLOCKLEN, buf |-> buf],
                       ctx.RoundKey, length)
  IN  [ctx |-> [ctx EXCEPT !.Iv = st.Iv], buf |-> st.buf]

AES_CTR_xcrypt_buffer_From(ctx, buf, from, length) ==
  LET sk == SkipLoop([i |-> 0, Iv |-> ctx.Iv, buffer |-> UninitBlock,
                      bi |-> AES_BLOCKLEN, buf |-> buf],
                     ctx.RoundKey, from)
      st == XcryptLoop([sk EXCEPT !.i = 0], ctx.RoundKey, length)
  IN  [ctx |-> [ctx EXCEPT !.Iv = st.Iv], buf |-> st.buf]

(***************************************************************************)
(* Section registry                                                        *)
(***************************************************************************)

NULL == 0

\* a char * that is NULL (the name of a section the hash table has just
\* allocated and zeroed)
NullName == "(null)"

BFD_ABS_SECTION_NAME == "*ABS*"
BFD_COM_SECTION_NAME == "*COM*"
BFD_UND_SECTION_NAME == "*UND*"
BFD_IND_SECTION_NAME == "*IND*"

\* &_bfd_std_section[k]: the pseudo-sections live outside every hash table
bfd_com_section_ptr == -1
bfd_und_section_ptr == -2
bfd_abs_section_ptr == -3
bfd_ind_section_ptr == -4

bfd_is_const_section(s) ==
  \/ s = bfd_abs_section_ptr
  \/ s = bfd_und_section_ptr
  \/ s = bfd_com_section_ptr
  \/ s = bfd_ind_section_ptr

\* what the symbol of a section points to: nothing, the symbol of the
\* pseudo-section in global_syms, a symbol bfd_make_empty_symbol has made
NullSymbol == "NULL"
GlobalSym == "global_syms"
EmptySymbol == "bfd_make_empty_symbol"

\* the value the section id counter starts from
FirstSectionId == 16

\* bfd_hash_hash on the names the model uses: "a" and "b" share a bucket
bfd_hash_hash(string) ==
  CASE string = "a" -> 1
    [] string = "b" -> 7
    [] string = BFD_ABS_SECTION_NAME -> 4
    [] OTHER -> 6

\* section_htab.size
HashTableSize == 2

\* the registry state the section functions read and write
Reg == [section_id |-> section_id, bfds |-> bfds, sects |-> sects,
        std_section |-> bfd_std_section]

\* BFD_FAKE_SECTION (_bfd_std_section[IDX], &global_syms[IDX], NAME, IDX, FLAGS)
STD_SECTION(NAME, IDX, FLAGS) ==
  [name |-> NAME, id |-> IDX, index |-> 0, next |-> NULL, prev |-> NULL,
   flags |-> FLAGS, size |-> 0, rawsize |-> 0, contents |-> << >>, owner |-> NULL,
   symbol |-> GlobalSym]

\* asection _bfd_std_section[]
STD_SECTIONS ==
  << STD_SECTION(BFD_COM_SECTION_NAME, 0, {"SEC_IS_COMMON"}),
     STD_SECTION(BFD_UND_SECTION_NAME, 1, {}),
     STD_SECTION(BFD_ABS_SECTION_NAME, 2, {}),
     STD_SECTION(BFD_IND_SECTION_NAME, 3, {}) >>

\* _bfd_generic_new_section_hook on the section newsect: the symbol it is
\* given, NULL when bfd_make_empty_symbol has no memory (hook_ok is what
\* the hook returns)
bfd_generic_new_section_hook(newsect, hook_ok) ==
  [newsect EXCEPT !.symbol = IF hook_ok THEN EmptySymbol ELSE NullSymbol]

\* bfd_section_hash_newfunc: a fresh entry, its section zeroed
ZeroSection ==
  [name |-> NullName, id |-> 0, index |-> 0, next |-> NULL, prev |-> NULL,
   flags |-> {}, size |-> 0, rawsize |-> 0, contents |-> << >>, owner |-> NULL,
   symbol |-> NullSymbol]

bfd_section_hash_newfunc ==
  [root |-> [next |-> NULL, string |-> NullName, hash |-> 0],
   section |-> ZeroSection]

\* the walk of one bucket chain: the first entry with this hash and string
RECURSIVE HashChainFind(_, _, _, _)
HashChainFind(S, hashp, hash, string) ==
  IF hashp = NULL THEN NULL
  ELSE IF S[hashp].root.hash = hash /\ S[hashp].root.string = string
       THEN hashp
       ELSE HashChainFind(S, S[hashp].root.next, hash, string)

\* bfd_hash_lookup (table, string, FALSE, FALSE)
bfd_hash_lookup(R, abfd, string) ==
  HashChainFind(R.sects,
                At(R.bfds[abfd].section_htab, bfd_hash_hash(string) % HashTableSize),
                bfd_hash_hash(string), string)

\* bfd_hash_lookup (table, string, TRUE, FALSE): the entry found, or a new
\* entry put at the head of its bucket.  Returns the registry and the entry.
section_hash_lookup_create(R, abfd, string) ==
  LET found == bfd_hash_lookup(R, abfd, string)
      hash  == bfd_hash_hash(string)
      idx   == hash % HashTableSize
      new   == Len(R.sects) + 1
      ent   == [bfd_section_hash_newfunc EXCEPT
                  !.root.string = string,
                  !.root.hash = hash,
                  !.root.next = At(R.bfds[abfd].section_htab, idx)]
  IN  IF found # NULL THEN [R |-> R, sh |-> found]
      ELSE [R  |-> [R EXCEPT !.sects = Append(@, ent),
                             !.bfds[abfd].section_htab[idx + 1] = new],
            sh |-> new]

\* the entries of one bucket chain from hashp on, in chain order
RECURSIVE HashChain(_, _)
HashChain(S, hashp) ==
  IF hashp = NULL THEN << >> ELSE << hashp >> \o HashChain(S, S[hashp].root.next)

InHashTable(R, abfd, ent) ==
  \E k \in 1..Len(HashChain(R.sects,
                   At(R.bfds[abfd].section_htab,
                      R.sects[ent].root.hash % HashTableSize))) :
     HashChain(R.sects, At(R.bfds[abfd].section_htab,
                           R.sects[ent].root.hash % HashTableSize))[k] = ent

\* bfd_hash_rename: unlink ent from its bucket, give it the new string and
\* hash, put it at the head of the new bucket (it aborts when ent is not in
\* its bucket: callers pass entries of the table)
bfd_hash_rename(R, abfd, string, ent) ==
  LET oldidx == R.sects[ent].root.hash % HashTableSize
      chain  == HashChain(R.sects, At(R.bfds[abfd].section_htab, oldidx))
      pos    == CHOOSE k \in 1..Len(chain) : chain[k] = ent
      R1     == IF pos = 1
                THEN [R EXCEPT !.bfds[abfd].section_htab[oldidx + 1] =
                                  R.sects[ent].root.next]
                ELSE [R EXCEPT !.sects[chain[pos - 1]].root.next =
                                  R.sects[ent].root.next]
      hash   == bfd_hash_hash(string)
      idx    == hash % HashTableSize
  IN  [R1 EXCEPT !.sects[ent].root.string = string,
                 !.sects[ent].root.hash = hash,
                 !.sects[ent].root.next = At(R1.bfds[abfd].section_htab, idx),
                 !.bfds[abfd].section_htab[idx + 1] = ent]

\* --- the list macros ---------------------------------------------------

bfd_section_list_append(R, abfd, s) ==
  LET last == R.bfds[abfd].section_last
  IN  IF last # NULL
      THEN [R EXCEPT !.sects[s].section.next = NULL,
                     !.sects[s].section.prev = last,
                     !.sects[last].section.next = s,
                     !.bfds[abfd].section_last = s]
      ELSE [R EXCEPT !.sects[s].section.next = NULL,
                     !.sects[s].section.prev = NULL,
                     !.bfds[abfd].sections = s,
                     !.bfds[abfd].section_last = s]

\* a removal that leaves section_last alone
bfd_section_list_remove_keep_last(R, abfd, s) ==
  LET next == R.sects[s].section.next
      prev == R.sects[s].section.prev
      R1 == IF prev # NULL
            THEN [R EXCEPT !.sects[prev].section.next = next]
            ELSE [R EXCEPT !.bfds[abfd].sections = next]
  IN  IF next # NULL
      THEN [R1 EXCEPT !.sects[next].section.prev = prev]
      ELSE R1

bfd_section_list_remove(R, abfd, s) ==
  LET next == R.sects[s].section.next
      prev == R.sects[s].section.prev
      R1 == IF prev # NULL
            THEN [R EXCEPT !.sects[prev].section.next = next]
            ELSE [R EXCEPT !.bfds[abfd].sections = next]
  IN  IF next # NULL
      THEN [R1 EXCEPT !.sects[next].section.prev = prev]
      ELSE [R1 EXCEPT !.bfds[abfd].section_last = prev]

bfd_section_list_prepend(R, abfd, s) ==
  LET first == R.bfds[abfd].sections
  IN  IF first # NULL
      THEN [R EXCEPT !.sects[s].section.prev = NULL,
                     !.sects[s].section.next = first,
                     !.sects[first].section.prev = s,
                     !.bfds[abfd].sections = s]
      ELSE [R EXCEPT !.sects[s].section.prev = NULL,
                     !.sects[s].section.next = NULL,
                     !.bfds[abfd].section_last = s,
                     !.bfds[abfd].sections = s]

bfd_section_list_insert_after(R, abfd, a, s) ==
  LET next == R.sects[a].section.next
      R1 == [R EXCEPT !.sects[s].section.next = next,
                      !.sects[s].section.prev = a,
                      !.sects[a].section.next = s]
  IN  IF next # NULL
      THEN [R1 EXCEPT !.sects[next].section.prev = s]
      ELSE [R1 EXCEPT !.bfds[abfd].section_last = s]

bfd_section_list_insert_before(R, abfd, b, s) ==
  LET prev == R.sects[b].section.prev
      R1 == [R EXCEPT !.sects[s].section.prev = prev,
                      !.sects[s].section.next = b,
                      !.sects[b].section.prev = s]
  IN  IF prev # NULL
      THEN [R1 EXCEPT !.sects[prev].section.next = s]
      ELSE [R1 EXCEPT !.bfds[abfd].sections = s]

\* --- creation ----------------------------------------------------------

\* an initialisation that does not advance the id counter
bfd_section_init_same_id(R, abfd, newsect, hook_ok) ==
  LET R0 == [R EXCEPT !.sects[newsect].section.id = R.section_id,
                      !.sects[newsect].section.index = R.bfds[abfd].section_count,
                      !.sects[newsect].section.owner = abfd]
      R1 == [R0 EXCEPT !.sects[newsect].section =
                          bfd_generic_new_section_hook(@, hook_ok)]
  IN  IF ~hook_ok THEN [R |-> R1, val |-> NULL, err |-> "unchanged"]
      ELSE [R   |-> bfd_section_list_append(
                      [R1 EXCEPT !.bfds[abfd].section_count = @ + 1],
                      abfd, newsect),
            val |-> newsect, err |-> "unchanged"]

\* bfd_section_init; hook_ok is what the owner's _new_section_hook returns
bfd_section_init(R, abfd, newsect, hook_ok) ==
  LET R0 == [R EXCEPT !.sects[newsect].section.id = R.section_id,
                      !.sects[newsect].section.index = R.bfds[abfd].section_count,
                      !.sects[newsect].section.owner = abfd]
      R1 == [R0 EXCEPT !.sects[newsect].section =
                          bfd_generic_new_section_hook(@, hook_ok)]
  IN  IF ~hook_ok THEN [R |-> R1, val |-> NULL, err |-> "unchanged"]
      ELSE [R   |-> bfd_section_list_append(
                      [R1 EXCEPT !.section_id = @ + 1,
                                 !.bfds[abfd].section_count = @ + 1],
                      abfd, newsect),
            val |-> newsect, err |-> "unchanged"]

bfd_make_section_old_way(R, abfd, name, hook_ok) ==
  IF R.bfds[abfd].output_has_begun
  THEN [R |-> R, val |-> NULL, err |-> "bfd_error_invalid_operation"]
  ELSE IF name \in {BFD_ABS_SECTION_NAME, BFD_COM_SECTION_NAME,
                    BFD_UND_SECTION_NAME, BFD_IND_SECTION_NAME}
  THEN LET newsect == CASE name = BFD_ABS_SECTION_NAME -> bfd_abs_section_ptr
                        [] name = BFD_COM_SECTION_NAME -> bfd_com_section_ptr
                        [] name = BFD_UND_SECTION_NAME -> bfd_und_section_ptr
                        [] OTHER -> bfd_ind_section_ptr
       IN  [R   |-> [R EXCEPT !.std_section[-newsect] =
                                bfd_generic_new_section_hook(@, hook_ok)],
            val |-> IF hook_ok THEN newsect ELSE NULL, err |-> "unchanged"]
  ELSE LET l == section_hash_lookup_create(R, abfd, name)
       IN  IF l.R.sects[l.sh].section.name # NullName
           THEN [R |-> l.R, val |-> l.sh, err |-> "unchanged"]
           ELSE bfd_section_init(
                  [l.R EXCEPT !.sects[l.sh].section.name = name],
                  abfd, l.sh, hook_ok)

\* an 'anyway' creation that leaves the new entry out of the bucket chain
bfd_make_section_anyway_unchained(R, abfd, name, flags, hook_ok) ==
  IF R.bfds[abfd].output_has_begun
  THEN [R |-> R, val |-> NULL, err |-> "bfd_error_invalid_operation"]
  ELSE LET l == section_hash_lookup_create(R, abfd, name)
           sh == l.sh
           exists == l.R.sects[sh].section.name # NullName
           new_sh == Len(l.R.sects) + 1
           R1 == IF exists
                 THEN [l.R EXCEPT
                         !.sects = Append(@,
                            [bfd_section_hash_newfunc EXCEPT
                               !.root = l.R.sects[sh].root])]
                 ELSE l.R
           newsect == IF exists THEN new_sh ELSE sh
       IN  bfd_section_init(
             [R1 EXCEPT !.sects[newsect].section.flags = flags,
                        !.sects[newsect].section.name = name],
             abfd, newsect, hook_ok)

bfd_make_section_anyway_with_flags(R, abfd, name, flags, hook_ok) ==
  IF R.bfds[abfd].output_has_begun
  THEN [R |-> R, val |-> NULL, err |-> "bfd_error_invalid_operation"]
  ELSE LET l == section_hash_lookup_create(R, abfd, name)
           sh == l.sh
           exists == l.R.sects[sh].section.name # NullName
           new_sh == Len(l.R.sects) + 1
           \* new_sh->root = sh->root; sh->root.next = &new_sh->root
           R1 == IF exists
                 THEN [l.R EXCEPT
                         !.sects = Append(@,
                            [bfd_section_hash_newfunc EXCEPT
                               !.root = l.R.sects[sh].root]),
                         !.sects[sh].root.next = new_sh]
                 ELSE l.R
           newsect == IF exists THEN new_sh ELSE sh
       IN  bfd_section_init(
             [R1 EXCEPT !.sects[newsect].section.flags = flags,
                        !.sects[newsect].section.name = name],
             abfd, newsect, hook_ok)

bfd_make_section_anyway(R, abfd, name, hook_ok) ==
  bfd_make_section_anyway_with_flags(R, abfd, name, {}, hook_ok)

\* a creation that gives its flags to the section that already has the name
bfd_make_section_with_flags_aliasing(R, abfd, name, flags, hook_ok) ==
  IF R.bfds[abfd].output_has_begun
  THEN [R |-> R, val |-> NULL, err |-> "bfd_error_invalid_operation"]
  ELSE IF name \in {BFD_ABS_SECTION_NAME, BFD_COM_SECTION_NAME,
                    BFD_UND_SECTION_NAME, BFD_IND_SECTION_NAME}
  THEN [R |-> R, val |-> NULL, err |-> "unchanged"]
  ELSE LET l == section_hash_lookup_create(R, abfd, name)
       IN  IF l.R.sects[l.sh].section.name # NullName
           THEN [R |-> [l.R EXCEPT !.sects[l.sh].section.flags = flags],
                 val |-> NULL, err |-> "unchanged"]
           ELSE bfd_section_init(
                  [l.R EXCEPT !.sects[l.sh].section.name = name,
                              !.sects[l.sh].section.flags = flags],
                  abfd, l.sh, hook_ok)

bfd_make_section_with_flags(R, abfd, name, flags, hook_ok) ==
  IF R.bfds[abfd].output_has_begun
  THEN [R |-> R, val |-> NULL, err |-> "bfd_error_invalid_operation"]
  ELSE IF name \in {BFD_ABS_SECTION_NAME, BFD_COM_SECTION_NAME,
                    BFD_UND_SECTION_NAME, BFD_IND_SECTION_NAME}
  THEN [R |-> R, val |-> NULL, err |-> "unchanged"]
  ELSE LET l == section_hash_lookup_create(R, abfd, name)
       IN  IF l.R.sects[l.sh].section.name # NullName
           THEN [R |-> l.R, val |-> NULL, err |-> "unchanged"]
           ELSE bfd_section_init(
                  [l.R EXCEPT !.sects[l.sh].section.name = name,
                              !.sects[l.sh].section.flags = flags],
                  abfd, l.sh, hook_ok)

bfd_make_section(R, abfd, name, hook_ok) ==
  bfd_make_section_with_flags(R, abfd, name, {}, hook_ok)

\* --- lookup ------------------------------------------------------------

bfd_get_section_by_name(R, abfd, name) == bfd_hash_lookup(R, abfd, name)

\* bfd_get_next_section_by_name (NULL, sec): no linked objects to go on to
bfd_get_next_section_by_name(R, sec) ==
  HashChainFind(R.sects, R.sects[sec].root.next,
                R.sects[sec].root.hash, R.sects[sec].section.name)

bfd_get_next_section_id(R) == R.section_id

\* --- the other registry operations -------------------------------------

\* a clear that forgets the section count
bfd_section_list_clear_keep_count(R, abfd) ==
  [R EXCEPT !.bfds[abfd].sections = NULL,
            !.bfds[abfd].section_last = NULL,
            !.bfds[abfd].section_htab = [k \in 1..HashTableSize |-> NULL]]

bfd_section_list_clear(R, abfd) ==
  [R EXCEPT !.bfds[abfd].sections = NULL,
            !.bfds[abfd].section_last = NULL,
            !.bfds[abfd].section_count = 0,
            !.bfds[abfd].section_htab = [k \in 1..HashTableSize |-> NULL]]

\* a rename that leaves the hash table alone
bfd_rename_section_name_only(R, abfd, sec, newname) ==
  [R EXCEPT !.sects[sec].section.name = newname]

\* a rename that moves the hash entry and leaves the name field alone
bfd_rename_section_entry_only(R, abfd, sec, newname) ==
  bfd_hash_rename(R, abfd, newname, sec)

bfd_rename_section(R, abfd, sec, newname) ==
  bfd_hash_rename([R EXCEPT !.sects[sec].section.name = newname],
                  abfd, newname, sec)

\* a resize that does not look at output_has_begun
bfd_set_section_size_any_time(R, abfd, ptr, val) ==
  [R |-> [R EXCEPT !.sects[ptr].section.size = val],
   val |-> 1, err |-> "unchanged"]

bfd_set_section_size(R, abfd, ptr, val) ==
  IF R.bfds[abfd].output_has_begun
  THEN [R |-> R, val |-> 0, err |-> "bfd_error_invalid_operation"]
  ELSE [R |-> [R EXCEPT !.sects[ptr].section.size = val],
        val |-> 1, err |-> "unchanged"]

bfd_set_section_flags(R, section, flags) ==
  [R EXCEPT !.sects[section].section.flags = flags]

\* the sections reachable from the list head by following next
RECURSIVE ListFrom(_, _)
ListFrom(S, s) ==
  IF s = NULL THEN << >> ELSE << s >> \o ListFrom(S, S[s].section.next)

SectionList(R, abfd) == ListFrom(R.sects, R.bfds[abfd].sections)

(***************************************************************************)
(* The cipher test driver                                                  *)
(***************************************************************************)

\* the longest buffer the driver encrypts
MaxLen == 33

\* Key, Iv and Nonce of TestAES (the cipher reads the first AES_KEYLEN bytes
\* of the key), and a second set whose Iv xor Nonce is all 0xff, so that the
\* first counter increment carries through every byte
TestKeys ==
  { [Key   |-> << 96, 61, 235, 16, 21, 202, 113, 190, 43, 115, 174, 240, 133, 125, 119, 129 >>,
     Iv    |-> << 240, 241, 242, 243, 244, 245, 246, 247, 248, 249, 250, 251, 252, 253, 254, 255 >>,
     Nonce |-> [k \in 1..AES_BLOCKLEN |-> 0]],
    [Key   |-> [k \in 1..AES_KEYLEN |-> k - 1],
     Iv    |-> [k \in 1..AES_BLOCKLEN |-> 170],
     Nonce |-> [k \in 1..AES_BLOCKLEN |-> 85]] }

TestInput(n) == [k \in 1..n |-> (7 * (k - 1) + 3) % 256]

\* AES_ctx_t Ctx; before AES_init_ctx
NoCtx == [RoundKey |-> << >>, Iv |-> UninitBlock]

TestIdle ==
  [pc |-> "idle", Key |-> << >>, Iv |-> << >>, Nonce |-> << >>, Input |-> << >>,
   Ctx |-> NoCtx, RefEnc |-> << >>, Dec |-> << >>, From |-> 0, In |-> << >>,
   Back |-> << >>]

\* apply the cipher to buf[from .. from + length) in place, seeking to from
XcryptInPlace(ctx, buf, from, length) ==
  LET r == AES_CTR_xcrypt_buffer_From(ctx, SubSeq(buf, from + 1, from + length),
                                      from, length)
  IN  [ctx |-> r.ctx,
       buf |-> SubSeq(buf, 1, from) \o r.buf \o SubSeq(buf, from + length + 1, Len(buf))]

TestInitCtx ==
  /\ test.pc = "start"
  /\ test' = [test EXCEPT !.pc = "ctx", !.Ctx = AES_init_ctx(test.Ctx, test.Key)]
  /\ UNCHANGED << section_id, bfds, sects, bfd_std_section, backend, EncryptInfo, bfd_error, ret,
                  created, wrote >>

\* RefEnc: the whole input encrypted from offset 0
TestEncFull ==
  /\ test.pc = "ctx"
  /\ LET r == XcryptInPlace(AES_ctx_set_iv(test.Ctx, test.Iv, test.Nonce),
                            test.Input, 0, Len(test.Input))
     IN  test' = [test EXCEPT !.pc = "enc", !.Ctx = r.ctx, !.RefEnc = r.buf]
  /\ UNCHANGED << section_id, bfds, sects, bfd_std_section, backend, EncryptInfo, bfd_error, ret,
                  created, wrote >>

\* "Enc Dec Full": the cipher applied to RefEnc from offset 0
TestDecFull ==
  /\ test.pc = "enc"
  /\ LET r == XcryptInPlace(AES_ctx_set_iv(test.Ctx, test.Iv, test.Nonce),
                            test.RefEnc, 0, Len(test.RefEnc))
     IN  test' = [test EXCEPT !.pc = "dec", !.Ctx = r.ctx, !.Dec = r.buf]
  /\ UNCHANGED << section_id, bfds, sects, bfd_std_section, backend, EncryptInfo, bfd_error, ret,
                  created, wrote >>

\* the same with the entry point that takes no offset
TestDecPlain ==
  /\ test.pc = "enc"
  /\ LET r == AES_CTR_xcrypt_buffer(AES_ctx_set_iv(test.Ctx, test.Iv, test.Nonce),
                                    test.RefEnc, Len(test.RefEnc))
     IN  test' = [test EXCEPT !.pc = "dec", !.Ctx = r.ctx, !.Dec = r.buf]
  /\ UNCHANGED << section_id, bfds, sects, bfd_std_section, backend, EncryptInfo, bfd_error, ret,
                  created, wrote >>

\* "Enc Dec Part": a fresh copy of the input, the cipher applied to In + From
TestPart ==
  /\ test.pc = "dec"
  /\ \E From \in 0..Len(test.Input) :
       LET r == XcryptInPlace(AES_ctx_set_iv(test.Ctx, test.Iv, test.Nonce),
                              test.Input, From, Len(test.Input) - From)
       IN  test' = [test EXCEPT !.pc = "part", !.Ctx = r.ctx, !.From = From,
                                !.In = r.buf]
  /\ UNCHANGED << section_id, bfds, sects, bfd_std_section, backend, EncryptInfo, bfd_error, ret,
                  created, wrote >>

\* the cipher applied a second time to the same range of In
TestPartBack ==
  /\ test.pc = "part"
  /\ LET r == XcryptInPlace(AES_ctx_set_iv(test.Ctx, test.Iv, test.Nonce),
                            test.In, test.From, Len(test.In) - test.From)
     IN  test' = [test EXCEPT !.pc = "back", !.Ctx = r.ctx, !.Back = r.buf]
  /\ UNCHANGED << section_id, bfds, sects, bfd_std_section, backend, EncryptInfo, bfd_error, ret,
                  created, wrote >>

(***************************************************************************)
(* Initial states                                                          *)
(***************************************************************************)

NoRet ==
  [op |-> "none", abfd |-> NULL, name |-> NullName, sec |-> NULL, args |-> << >>,
   val |-> NULL]

NoEncryptInfo == [Components |-> << >>, Verbose |-> FALSE,
                       OutComponent |-> NULL]

\* a bfd just opened: bfd_hash_table_init has run, nothing else
NewBfd(filename, flags, direction) ==
  [sections |-> NULL, section_last |-> NULL, section_count |-> 0,
   output_has_begun |-> FALSE,
   section_htab |-> [k \in 1..HashTableSize |-> NULL],
   flags |-> flags, direction |-> direction, filename |-> filename]

\* the bfds a client has opened
BFDs == DOMAIN bfds

InitRegistry ==
  /\ section_id = FirstSectionId
  /\ sects = << >>
  /\ backend = << >>
  /\ EncryptInfo = NoEncryptInfo
  /\ bfd_error = "bfd_error_no_error"
  /\ ret = NoRet
  /\ created = << >>
  /\ wrote = {}
  /\ bfd_std_section = STD_SECTIONS

InitCipher ==
  /\ InitRegistry
  /\ bfds = << >>
  /\ \E k \in TestKeys, n \in 0..MaxLen :
       test = [TestIdle EXCEPT !.pc = "start", !.Key = k.Key, !.Iv = k.Iv,
                               !.Nonce = k.Nonce, !.Input = TestInput(n)]

NextCipher ==
  \/ TestInitCtx
  \/ TestEncFull
  \/ TestDecFull
  \/ TestDecPlain
  \/ TestPart
  \/ TestPartBack

SpecCipher == InitCipher /\ [][NextCipher]_vars

(***************************************************************************)
(* Properties of the cipher                                                *)
(***************************************************************************)

IsBytes(buf) == \A k \in 1..Len(buf) : buf[k] \in 0..255

\* C1: cipher offset invariance.  Running the cipher on Input[From..N) at
\* offset From with length N - From gives exactly bytes From..N-1 of RefEnc,
\* the result of running it on the whole input at offset 0, and leaves the
\* bytes before From alone.
OffsetInvariance ==
  test.pc \in {"part", "back"} =>
    /\ IsBytes(test.In)
    /\ Len(test.In) = Len(test.RefEnc)
    /\ SubSeq(test.In, test.From + 1, Len(test.In))
         = SubSeq(test.RefEnc, test.From + 1, Len(test.RefEnc))
    /\ SubSeq(test.In, 1, test.From) = SubSeq(test.Input, 1, test.From)

\* a split point past the first block and off a block boundary, with bytes
\* on both sides of the next boundary still to encrypt
OffsetInvarianceWitness ==
  /\ test.pc = "part"
  /\ test.From > AES_BLOCKLEN
  /\ test.From % AES_BLOCKLEN # 0
  /\ Len(test.Input) > (test.From \div AES_BLOCKLEN + 1) * AES_BLOCKLEN
  /\ SubSeq(test.In, test.From + 1, Len(test.In))
       # SubSeq(test.Input, test.From + 1, Len(test.Input))

\* C3: cipher round trip.  Applying the cipher twice with the same offset
\* and length returns the original buffer, whatever the length.
RoundTrip ==
  /\ test.pc \in {"dec", "part", "back"} => test.Dec = test.Input
  /\ test.pc = "back" => test.Back = test.Input

\* a round trip over a range that starts and ends off a block boundary
RoundTripWitness ==
  /\ test.pc = "back"
  /\ test.From % AES_BLOCKLEN # 0
  /\ Len(test.Input) % AES_BLOCKLEN # 0
  /\ Len(test.Input) - test.From > AES_BLOCKLEN
  /\ test.In # test.Input
  /\ test.RefEnc # test.Input
  /\ test.Back = test.Input

(***************************************************************************)
(* Section contents                                                        *)
(***************************************************************************)

\* a byte of the output file no write has reached
Unwritten == -2

\* a bfd taken to be writable whatever its direction
bfd_write_p_always(abfd) == TRUE

bfd_write_p(abfd) == abfd.direction \in {"write_direction", "both_direction"}

\* a test that finds no section to be a code section
IsTextSectionNever(R, section) == FALSE

IsTextSection(R, section) == "SEC_CODE" \in R.sects[section].section.flags

\* a match of the end of Name, whatever the character before it
ComponentMatchesSuffix(Name, CName) ==
  /\ Len(Name) >= Len(CName)
  /\ SubSeq(Name, Len(Name) - Len(CName) + 1, Len(Name)) = CName

\* strcmp (Name + (Ln - Lc), Pt->Name) == 0 and the character before the
\* suffix is a directory separator, or the two names are equal
ComponentMatches(Name, CName) ==
  LET Ln == Len(Name)
      Lc == Len(CName)
  IN  IF Ln > Lc
      THEN /\ SubSeq(Name, Ln - Lc + 1, Ln) = CName
           /\ Name[Ln - Lc] \in {"/", "\\"}
      ELSE Ln = Lc /\ Name = CName

\* the first component of the list that matches, NULL when none does
ComponentLookUp(Name, Components) ==
  IF \E k \in 1..Len(Components) : ComponentMatches(Name, Components[k].Name)
  THEN CHOOSE k \in 1..Len(Components) :
         /\ ComponentMatches(Name, Components[k].Name)
         /\ \A j \in 1..(k - 1) : ~ComponentMatches(Name, Components[j].Name)
  ELSE NULL

\* a variant that always encrypts as if the buffer started the section
EncryptObjSectionAtZero(Comp, InBuffer, Pos, Length) ==
  AES_CTR_xcrypt_buffer_From(
    AES_ctx_set_iv(AES_init_ctx(NoCtx, Comp.Key), Comp.Iv, Comp.Nonce),
    InBuffer, 0, Length).buf

\* Pos is an unsigned int: the offsets of the model are far below 2^32, where
\* the conversion from file_ptr leaves them alone
EncryptObjSection(Comp, InBuffer, Pos, Length) ==
  AES_CTR_xcrypt_buffer_From(
    AES_ctx_set_iv(AES_init_ctx(NoCtx, Comp.Key), Comp.Iv, Comp.Nonce),
    InBuffer, Pos, Length).buf

\* memcpy (dst + offset, src, Len (src)); dst grows as a file does
\* a copy that puts src at the start of dst, whatever the offset
OverwriteAtStart(dst, offset, src) ==
  [k \in 1..(IF Len(dst) > offset + Len(src) THEN Len(dst) ELSE offset + Len(src)) |->
     IF k <= Len(src) THEN src[k]
     ELSE IF k <= Len(dst) THEN dst[k]
     ELSE Unwritten]

Overwrite(dst, offset, src) ==
  [k \in 1..(IF Len(dst) > offset + Len(src) THEN Len(dst) ELSE offset + Len(src)) |->
     IF k > offset /\ k <= offset + Len(src) THEN src[k - offset]
     ELSE IF k <= Len(dst) THEN dst[k]
     ELSE Unwritten]

\* BFD_SEND (abfd, _bfd_set_section_contents, ...): the backend stores the
\* bytes and returns TRUE, or stores nothing and returns FALSE
backend_set_section_contents(B, section, data, offset, backend_ok) ==
  IF backend_ok
  THEN [B EXCEPT ![section] = Overwrite(@, offset, data)]
  ELSE B

\* a test that turns away the ranges that end where the section ends
EndsAtOrBeyond(sz, offset, count) ==
  offset < 0 \/ offset >= sz \/ count >= sz \/ offset + count >= sz

\* (bfd_size_type) offset > sz || count > sz || offset + count > sz; a
\* negative offset is a huge bfd_size_type; count != (size_t) count is false
\* where the two types have one width
BeyondSize(sz, offset, count) ==
  offset < 0 \/ offset > sz \/ count > sz \/ offset + count > sz

\* a writer's status that is taken for success whatever it is
OutputBegunAnyway(R, abfd, status) ==
  [R EXCEPT !.bfds[abfd].output_has_begun = TRUE]

\* if (BFD_SEND (...)) { abfd->output_has_begun = TRUE; return TRUE; }
OutputBegun(R, abfd, status) ==
  IF status THEN [R EXCEPT !.bfds[abfd].output_has_begun = TRUE] ELSE R

\* location is the count bytes the caller passes.  In the result, sent is
\* the calls of the target's writer (none, or one with the bytes it is
\* handed) and loc the caller's buffer after the call.  A component with a NULL
\* Key, Iv or Nonce (the empty sequence) makes the cipher read through a NULL
\* pointer: the process ends with SIGSEGV.
bfd_set_section_contents(R, B, E, abfd, section, location, offset, count, backend_ok) ==
  LET sec  == R.sects[section].section
      Comp == IF IsTextSection(R, section) /\ "BFD_ENCRYPTED" \in R.bfds[abfd].flags
              THEN ComponentLookUp(R.bfds[abfd].filename, E.Components)
              ELSE NULL
      sz   == sec.size
      R1   == IF sec.contents # << >>
              THEN [R EXCEPT !.sects[section].section.contents =
                               Overwrite(@, offset, location)]
              ELSE R
  IN  IF "SEC_HAS_CONTENTS" \notin sec.flags
      THEN [R |-> R, B |-> B, val |-> 0, err |-> "bfd_error_no_contents",
            sent |-> << >>, loc |-> location]
      ELSE IF BeyondSize(sz, offset, count)
      THEN [R |-> R, B |-> B, val |-> 0, err |-> "bfd_error_bad_value",
            sent |-> << >>, loc |-> location]
      ELSE IF ~bfd_write_p(R.bfds[abfd])
      THEN [R |-> R, B |-> B, val |-> 0, err |-> "bfd_error_invalid_operation",
            sent |-> << >>, loc |-> location]
      ELSE IF Comp # NULL /\ \/ E.Components[Comp].Key = << >>
                             \/ E.Components[Comp].Iv = << >>
                             \/ E.Components[Comp].Nonce = << >>
      THEN [R |-> R1, B |-> B, val |-> 0, err |-> "SIGSEGV",
            sent |-> << >>, loc |-> location]
      ELSE LET CopyIn == IF Comp # NULL
                         THEN EncryptObjSection(E.Components[Comp], location,
                                                offset, count)
                         ELSE location
           IN  [R   |-> OutputBegun(R1, abfd, backend_ok),
                B   |-> backend_set_section_contents(B, section, CopyIn, offset,
                                                     backend_ok),
                val |-> IF backend_ok THEN 1 ELSE 0,
                err |-> "unchanged",
                sent |-> << CopyIn >>,
                loc |-> location]

\* --- reads -------------------------------------------------------------

\* a size that is section->size whatever the direction and the rawsize
SizeOnly(R, abfd, section) == R.sects[section].section.size

\* sz of bfd_get_section_contents
EffectiveSize(R, abfd, section) ==
  IF /\ R.bfds[abfd].direction # "write_direction"
     /\ R.sects[section].section.rawsize # 0
  THEN R.sects[section].section.rawsize
  ELSE R.sects[section].section.size

\* a test for count == 0 that never finds it
NothingToReadNever(count) == FALSE

\* if (count == 0) return TRUE
NothingToRead(count) == count = 0

\* a fill that leaves the buffer alone
ZeroFillNone(location, count) == location

\* memset (location, 0, count)
ZeroFill(location, count) ==
  [k \in 1..Len(location) |-> IF k <= count THEN 0 ELSE location[k]]

\* memcpy (location, src, count), src holding count bytes
CopyTo(location, src, count) ==
  [k \in 1..Len(location) |-> IF k <= count THEN src[k] ELSE location[k]]

\* BFD_SEND (abfd, _bfd_get_section_contents, ...): the reader of the target
\* puts the bytes of the file in the buffer and returns TRUE, or leaves the
\* buffer as it is and returns FALSE
backend_get_section_contents(B, section, buffer, offset, count, backend_ok) ==
  IF backend_ok
  THEN [status |-> 1, buf |-> SubSeq(B[section], offset + 1, offset + count)]
  ELSE [status |-> 0, buf |-> buffer]

\* flags that keep SEC_IN_MEMORY
KeepInMemory(flags) == flags

\* section->flags &= ~ SEC_IN_MEMORY
ClearInMemory(flags) == flags \ {"SEC_IN_MEMORY"}

\* a decryption that takes the bytes for the first of the section
ReadDecryptAtZero(Comp, CopyOut, offset, count) ==
  IF \E k \in 1..count : CopyOut[k] = Uninit
  THEN CopyOut
  ELSE EncryptObjSection(Comp, CopyOut, 0, count)

\* EncryptObjSection (Comp, CopyOut, offset, count) on what the reader left
\* in CopyOut: bytes of the file, or the bytes malloc gave, which are any
\* bytes before and after they are xored with the keystream
ReadDecrypt(Comp, CopyOut, offset, count) ==
  IF \E k \in 1..count : CopyOut[k] = Uninit
  THEN CopyOut
  ELSE EncryptObjSection(Comp, CopyOut, offset, count)

\* location is the caller's buffer, of count bytes or more.  In the result,
\* got is the calls of the target's reader (none, or one with its status and
\* the bytes it left) and loc the caller's buffer after the call.
bfd_get_section_contents(R, B, E, abfd, section, location, offset, count, backend_ok) ==
  LET sec  == R.sects[section].section
      Comp == IF IsTextSection(R, section) /\ "BFD_ENCRYPTED" \in R.bfds[abfd].flags
              THEN ComponentLookUp(R.bfds[abfd].filename, E.Components)
              ELSE NULL
      sz   == EffectiveSize(R, abfd, section)
  IN  IF "SEC_CONSTRUCTOR" \in sec.flags
      THEN [R |-> R, val |-> 1, err |-> "unchanged", got |-> << >>,
            loc |-> ZeroFill(location, count)]
      ELSE IF BeyondSize(sz, offset, count)
      THEN [R |-> R, val |-> 0, err |-> "bfd_error_bad_value", got |-> << >>,
            loc |-> location]
      ELSE IF NothingToRead(count)
      THEN [R |-> R, val |-> 1, err |-> "unchanged", got |-> << >>,
            loc |-> location]
      ELSE IF "SEC_HAS_CONTENTS" \notin sec.flags
      THEN [R |-> R, val |-> 1, err |-> "unchanged", got |-> << >>,
            loc |-> ZeroFill(location, count)]
      ELSE IF "SEC_IN_MEMORY" \in sec.flags
      THEN IF sec.contents = << >>
           THEN [R |-> [R EXCEPT !.sects[section].section.flags =
                                   ClearInMemory(@)],
                 val |-> 0, err |-> "bfd_error_invalid_operation", got |-> << >>,
                 loc |-> location]
           ELSE [R |-> R, val |-> 1, err |-> "unchanged", got |-> << >>,
                 loc |-> CopyTo(location,
                                SubSeq(sec.contents, offset + 1, offset + count),
                                count)]
      ELSE IF Comp # NULL /\ \/ E.Components[Comp].Key = << >>
                             \/ E.Components[Comp].Iv = << >>
                             \/ E.Components[Comp].Nonce = << >>
      THEN [R |-> R, val |-> 0, err |-> "SIGSEGV", got |-> << >>,
            loc |-> location]
      ELSE IF Comp # NULL
      THEN LET read == backend_get_section_contents(
                         B, section, [k \in 1..count |-> Uninit], offset, count,
                         backend_ok)
           IN  [R |-> R, val |-> read.status, err |-> "unchanged",
                got |-> << read >>,
                loc |-> CopyTo(location,
                               ReadDecrypt(E.Components[Comp], read.buf, offset,
                                           count),
                               count)]
      ELSE LET read == backend_get_section_contents(
                         B, section, SubSeq(location, 1, count), offset, count,
                         backend_ok)
           IN  [R |-> R, val |-> read.status, err |-> "unchanged",
                got |-> << read >>,
                loc |-> CopyTo(location, read.buf, count)]

(***************************************************************************)
(* The calls a client makes                                                *)
(***************************************************************************)

\* the most hash entries the model allocates
MaxSections == 3

\* the names a client passes: two names the hash table puts in one bucket,
\* and the name of a pseudo-section
SectionNames == {"a", "b", BFD_ABS_SECTION_NAME}

\* the flags a client passes to the calls that take flags
FlagChoices == {{"SEC_HAS_CONTENTS"}}

SizeChoices == {2}

\* (offset, count) of the writes a client tries
WriteRanges == {<< 0, 2 >>, << 1, 2 >>}

WriteData(count) == [k \in 1..count |-> (16 * k + k) % 256]

\* the sections of abfd a client can hold a pointer to
SectionsOf(abfd) == {s \in 1..Len(sects) : sects[s].section.owner = abfd}

\* the process has not been killed
Running == bfd_error \notin {"SIGSEGV", "SIGABRT"}

\* what every call leaves behind: the registry, the error of the last
\* bfd_set_error, the record of the call, and the two histories
Returns(r, B, op, abfd, name, sec, args) ==
  /\ Len(r.R.sects) <= MaxSections
  /\ section_id' = r.R.section_id
  /\ bfds' = r.R.bfds
  /\ sects' = r.R.sects
  /\ bfd_std_section' = r.R.std_section
  /\ backend' = [s \in 1..Len(r.R.sects) |-> IF s <= Len(B) THEN B[s] ELSE << >>]
  /\ bfd_error' = IF r.err = "unchanged" THEN bfd_error ELSE r.err
  /\ ret' = [op |-> op, abfd |-> abfd, name |-> name, sec |-> sec, args |-> args,
             val |-> r.val]
  /\ created' = IF r.R.section_id # section_id THEN Append(created, r.val) ELSE created
  /\ wrote' = IF op = "bfd_set_section_contents" /\ r.val = 1
              THEN wrote \cup {abfd} ELSE wrote
  /\ UNCHANGED << EncryptInfo, test >>

\* a call that returns void or the value val and changes nothing but R
Done(R, val) == [R |-> R, val |-> val, err |-> "unchanged"]

MakeSectionOldWay(names) ==
  \E abfd \in BFDs, name \in names, hook_ok \in BOOLEAN :
    /\ Running
    /\ Returns(bfd_make_section_old_way(Reg, abfd, name, hook_ok), backend,
            "bfd_make_section_old_way", abfd, name, NULL, << >>)

MakeSectionAnywayWithFlags(names) ==
  \E abfd \in BFDs, name \in names, flags \in FlagChoices, hook_ok \in BOOLEAN :
    /\ Running
    /\ Returns(bfd_make_section_anyway_with_flags(Reg, abfd, name, flags, hook_ok),
            backend, "bfd_make_section_anyway_with_flags", abfd, name, NULL, << >>)

MakeSectionAnyway(names) ==
  \E abfd \in BFDs, name \in names, hook_ok \in BOOLEAN :
    /\ Running
    /\ Returns(bfd_make_section_anyway(Reg, abfd, name, hook_ok), backend,
            "bfd_make_section_anyway", abfd, name, NULL, << >>)

MakeSectionWithFlags(names) ==
  \E abfd \in BFDs, name \in names, flags \in FlagChoices, hook_ok \in BOOLEAN :
    /\ Running
    /\ Returns(bfd_make_section_with_flags(Reg, abfd, name, flags, hook_ok),
            backend, "bfd_make_section_with_flags", abfd, name, NULL, << >>)

MakeSection(names) ==
  \E abfd \in BFDs, name \in names, hook_ok \in BOOLEAN :
    /\ Running
    /\ Returns(bfd_make_section(Reg, abfd, name, hook_ok), backend,
            "bfd_make_section", abfd, name, NULL, << >>)

GetSectionByName(names) ==
  \E abfd \in BFDs, name \in names :
    /\ Running
    /\ Returns(Done(Reg, bfd_get_section_by_name(Reg, abfd, name)), backend,
            "bfd_get_section_by_name", abfd, name, NULL, << >>)

\* sec is a section a lookup has returned
GetNextSectionByName ==
  \E abfd \in BFDs :
    \E sec \in {s \in SectionsOf(abfd) : InHashTable(Reg, abfd, s)} :
      /\ Running
      /\ Returns(Done(Reg, bfd_get_next_section_by_name(Reg, sec)), backend,
              "bfd_get_next_section_by_name", abfd, sects[sec].section.name, sec,
              << >>)

GetNextSectionId ==
  /\ Running
  /\ Returns(Done(Reg, bfd_get_next_section_id(Reg)), backend,
          "bfd_get_next_section_id", NULL, NullName, NULL, << >>)

SectionListClear ==
  \E abfd \in BFDs :
    /\ Running
    /\ Returns(Done(bfd_section_list_clear(Reg, abfd), 0), backend,
            "bfd_section_list_clear", abfd, NullName, NULL, << >>)

\* sec is in the hash table of abfd (bfd_hash_rename aborts otherwise)
RenameSection(names) ==
  \E abfd \in BFDs, newname \in names :
    \E sec \in {s \in SectionsOf(abfd) : InHashTable(Reg, abfd, s)} :
      /\ Running
      /\ Returns(Done(bfd_rename_section(Reg, abfd, sec, newname), 0), backend,
              "bfd_rename_section", abfd, newname, sec, << >>)

SetSectionFlags ==
  \E abfd \in BFDs, flags \in FlagChoices :
    \E sec \in SectionsOf(abfd) :
      /\ Running
      /\ Returns(Done(bfd_set_section_flags(Reg, sec, flags), 1), backend,
              "bfd_set_section_flags", abfd, sects[sec].section.name, sec, << >>)

SetSectionSize ==
  \E abfd \in BFDs, val \in SizeChoices :
    \E sec \in SectionsOf(abfd) :
      /\ Running
      /\ Returns(bfd_set_section_size(Reg, abfd, sec, val), backend,
              "bfd_set_section_size", abfd, sects[sec].section.name, sec,
              << val >>)

SetSectionContents(ranges) ==
  \E abfd \in BFDs, range \in ranges, backend_ok \in BOOLEAN :
    \E sec \in SectionsOf(abfd) :
      LET r == bfd_set_section_contents(Reg, backend, EncryptInfo, abfd, sec,
                                        WriteData(range[2]), range[1], range[2],
                                        backend_ok)
      IN  /\ Running
          /\ Returns(r, r.B, "bfd_set_section_contents", abfd,
                     sects[sec].section.name, sec, range)

\* one output bfd
Init ==
  /\ InitRegistry
  /\ bfds = << NewBfd(<< "a", ".", "o" >>, {}, "write_direction") >>
  /\ test = TestIdle

\* creation under one name, sizes, flags, contents and clearing
OneName == {"a"}

Next ==
  \/ MakeSectionOldWay(OneName)
  \/ MakeSectionAnywayWithFlags(OneName)
  \/ MakeSectionAnyway(OneName)
  \/ MakeSectionWithFlags(OneName)
  \/ MakeSection(OneName)
  \/ SectionListClear
  \/ SetSectionFlags
  \/ SetSectionSize
  \/ SetSectionContents(WriteRanges)

Spec == Init /\ [][Next]_vars

\* creation and lookup
NextCreate ==
  \/ MakeSectionOldWay(SectionNames)
  \/ MakeSectionAnywayWithFlags(SectionNames)
  \/ MakeSectionAnyway(SectionNames)
  \/ MakeSectionWithFlags(SectionNames)
  \/ MakeSection(SectionNames)
  \/ GetSectionByName(SectionNames)
  \/ GetNextSectionByName

SpecCreate == Init /\ [][NextCreate]_vars

\* creation, and writes of no bytes to the sections that have contents
EmptyRange == {<< 0, 0 >>}

NextDup ==
  \/ MakeSectionOldWay(SectionNames)
  \/ MakeSectionAnywayWithFlags(SectionNames)
  \/ MakeSectionAnyway(SectionNames)
  \/ MakeSectionWithFlags(SectionNames)
  \/ MakeSection(SectionNames)
  \/ SetSectionContents(EmptyRange)

SpecDup == Init /\ [][NextDup]_vars

\* creation, renaming and clearing
TwoNames == {"a", "b"}

NextRegistry ==
  \/ MakeSectionOldWay(TwoNames)
  \/ MakeSectionAnywayWithFlags(TwoNames)
  \/ MakeSectionAnyway(TwoNames)
  \/ MakeSectionWithFlags(TwoNames)
  \/ MakeSection(TwoNames)
  \/ SectionListClear
  \/ RenameSection(TwoNames)

SpecRegistry == Init /\ [][NextRegistry]_vars

\* creation in two bfds: an output bfd and an input bfd
InitTwo ==
  /\ InitRegistry
  /\ bfds = << NewBfd(<< "a", ".", "o" >>, {}, "write_direction"),
               NewBfd(<< "b", ".", "o" >>, {}, "read_direction") >>
  /\ test = TestIdle

PseudoNames == {"a", BFD_ABS_SECTION_NAME}

NextIds ==
  \/ MakeSectionOldWay(PseudoNames)
  \/ MakeSectionAnywayWithFlags(PseudoNames)
  \/ MakeSectionAnyway(PseudoNames)
  \/ MakeSectionWithFlags(PseudoNames)
  \/ MakeSection(PseudoNames)
  \/ GetNextSectionId

SpecIds == InitTwo /\ [][NextIds]_vars

(***************************************************************************)
(* Encrypted writes                                                        *)
(***************************************************************************)

\* the size of the code section the client writes
SecSize == 33

\* the bytes the client writes to the section
SectionData == [k \in 1..SecSize |-> (11 * (k - 1) + 5) % 256]

\* where the client may cut the section into chunks: around the first block
\* boundary, on the second, one byte from each end
CutPoints ==
  {0, 1, AES_BLOCKLEN - 1, AES_BLOCKLEN, AES_BLOCKLEN + 1, 2 * AES_BLOCKLEN, SecSize}

\* one component loaded, with its Key, Iv and Nonce
OneComponent ==
  [Name   |-> << "a", ".", "o" >>, Vendor |-> << "v" >>, Server |-> << "s" >>,
   UserAuth |-> << "u" >>,
   Key    |-> [k \in 1..AES_KEYLEN |-> (k * 13) % 256],
   Iv     |-> [k \in 1..AES_BLOCKLEN |-> 255],
   Nonce  |-> [k \in 1..AES_BLOCKLEN |-> IF k = AES_BLOCKLEN THEN 1 ELSE 0]]

\* two encrypted output bfds of the same component, a code section of
\* SecSize bytes made in each
WriteSetup ==
  LET R0 == [section_id |-> FirstSectionId, std_section |-> STD_SECTIONS,
             bfds |-> << NewBfd(<< "o", "/", "a", ".", "o" >>, {"BFD_ENCRYPTED"},
                                "write_direction"),
                         NewBfd(<< "a", ".", "o" >>, {"BFD_ENCRYPTED"},
                                "write_direction") >>,
             sects |-> << >>]
      c1 == bfd_make_section_with_flags(R0, 1, "a", {"SEC_CODE", "SEC_HAS_CONTENTS"}, TRUE)
      s1 == bfd_set_section_size(c1.R, 1, c1.val, SecSize)
      c2 == bfd_make_section_with_flags(s1.R, 2, "a", {"SEC_CODE", "SEC_HAS_CONTENTS"}, TRUE)
  IN  bfd_set_section_size(c2.R, 2, c2.val, SecSize).R

InitWrite ==
  /\ section_id = WriteSetup.section_id
  /\ bfds = WriteSetup.bfds
  /\ sects = WriteSetup.sects
  /\ backend = [s \in 1..Len(WriteSetup.sects) |-> << >>]
  /\ EncryptInfo = [Components |-> << OneComponent >>, Verbose |-> FALSE,
                       OutComponent |-> NULL]
  /\ bfd_error = "bfd_error_no_error"
  /\ ret = NoRet
  /\ created = << 1, 2 >>
  /\ wrote = {}
  /\ bfd_std_section = STD_SECTIONS
  /\ test = TestIdle

\* the section of abfd
TheSection(abfd) == bfds[abfd].sections

IsWritten(sec, k) == k <= Len(backend[sec]) /\ backend[sec][k] # Unwritten

\* the client writes one chunk of the section of the first bfd, a range
\* between two cut points that no earlier chunk has covered
WriteChunk ==
  \E lo \in CutPoints, hi \in CutPoints :
    LET sec == TheSection(1)
        r == bfd_set_section_contents(Reg, backend, EncryptInfo, 1, sec,
                                      SubSeq(SectionData, lo + 1, hi), lo, hi - lo,
                                      TRUE)
    IN  /\ Running
        /\ lo < hi
        /\ \A k \in (lo + 1)..hi : ~IsWritten(sec, k)
        /\ Returns(r, r.B, "bfd_set_section_contents", 1,
                   sects[sec].section.name, sec, << lo, hi - lo >>)

\* the client writes the whole section of the second bfd in one call
WriteWhole ==
  LET sec == TheSection(2)
      r == bfd_set_section_contents(Reg, backend, EncryptInfo, 2, sec,
                                    SectionData, 0, SecSize, TRUE)
  IN  /\ Running
      /\ ~IsWritten(sec, 1)
      /\ Returns(r, r.B, "bfd_set_section_contents", 2,
                 sects[sec].section.name, sec, << 0, SecSize >>)

NextWrite ==
  \/ WriteChunk
  \/ WriteWhole

SpecWrite == InitWrite /\ [][NextWrite]_vars

IsComplete(sec) ==
  /\ Len(backend[sec]) = sects[sec].section.size
  /\ \A k \in 1..Len(backend[sec]) : backend[sec][k] # Unwritten

\* C2: chunking and order independence of encrypted writes.  Once the chunks
\* written to the section of the first bfd cover it, and the section of the
\* second bfd has been written in one call, the backend holds the same bytes
\* for both, and they are not the bytes the client passed.
ChunkingIndependence ==
  IsComplete(TheSection(1)) /\ IsComplete(TheSection(2)) =>
    /\ backend[TheSection(1)] = backend[TheSection(2)]
    /\ IsBytes(backend[TheSection(1)])
    /\ backend[TheSection(1)] # SectionData

\* the section completed by a chunk in its middle that starts one byte past
\* a block boundary and ends on the next
ChunkingIndependenceWitness ==
  /\ IsComplete(TheSection(1))
  /\ IsComplete(TheSection(2))
  /\ ret.op = "bfd_set_section_contents"
  /\ ret.abfd = 1
  /\ ret.args = << AES_BLOCKLEN + 1, AES_BLOCKLEN - 1 >>
  /\ ret.val = 1
  /\ bfds[1].output_has_begun
  /\ backend[TheSection(1)] = backend[TheSection(2)]

(***************************************************************************)
(* Lookup by name                                                          *)
(***************************************************************************)

CreateOps ==
  {"bfd_make_section_old_way", "bfd_make_section_anyway_with_flags",
   "bfd_make_section_anyway", "bfd_make_section_with_flags", "bfd_make_section"}

\* the sections created in abfd under name, oldest first
CreatedAs(abfd, name) ==
  SelectSeq(created, LAMBDA s : /\ sects[s].section.owner = abfd
                                /\ sects[s].section.name = name)

\* C4: bfd_get_section_by_name returns the most recently created section of
\* that name, and NULL when none was created.  Stated for the lookups made
\* when every creation so far has succeeded (each entry of the hash table is
\* a created section).
MostRecentlyCreated ==
  (ret.op = "bfd_get_section_by_name" /\ Len(created) = Len(sects)) =>
    LET made == CreatedAs(ret.abfd, ret.name)
    IN  ret.val = IF made = << >> THEN NULL ELSE made[Len(made)]

\* a lookup that returned the first of several sections of the name
OldestReturned ==
  /\ ret.op = "bfd_get_section_by_name"
  /\ Len(created) = Len(sects)
  /\ Len(CreatedAs(ret.abfd, ret.name)) >= 2
  /\ ret.val = CreatedAs(ret.abfd, ret.name)[1]

(***************************************************************************)
(* The creation lock                                                       *)
(***************************************************************************)

\* C5: once bfd_set_section_contents has succeeded on a bfd, every creation
\* call and every bfd_set_section_size call on it returns failure with
\* bfd_error_invalid_operation and leaves the id counter, the bfds (list,
\* section_count, hash table) and the sections (sizes included) as they
\* were; a successful write leaves output_has_begun set, and no call resets
\* it.
CreationLock ==
  [][ /\ (ret'.op \in CreateOps \cup {"bfd_set_section_size"}
            /\ ret'.abfd \in wrote) =>
           /\ ret'.val = NULL
           /\ bfd_error' = "bfd_error_invalid_operation"
           /\ UNCHANGED << section_id, bfds, sects >>
      /\ \A abfd \in wrote' : bfds'[abfd].output_has_begun
      /\ \A abfd \in BFDs :
           bfds[abfd].output_has_begun => bfds'[abfd].output_has_begun
    ]_vars

\* an 'anyway' creation refused after a write, the sections still listed
CreationLockWitness ==
  /\ ret.op = "bfd_make_section_anyway_with_flags"
  /\ ret.abfd \in wrote
  /\ ret.val = NULL
  /\ bfd_error = "bfd_error_invalid_operation"
  /\ bfds[ret.abfd].section_count = Len(SectionList(Reg, ret.abfd))
  /\ bfds[ret.abfd].section_count >= 2

(***************************************************************************)
(* Creation under a name in use                                            *)
(***************************************************************************)

PseudoSectionNames ==
  {BFD_ABS_SECTION_NAME, BFD_COM_SECTION_NAME, BFD_UND_SECTION_NAME,
   BFD_IND_SECTION_NAME}

\* the section the name stands for in the bfd before the call just made
\* (NULL when the call was not one of the three creations that look for it)
ExistingBefore ==
  IF ret'.op \in {"bfd_make_section_old_way", "bfd_make_section_with_flags",
                  "bfd_make_section"}
  THEN bfd_get_section_by_name(Reg, ret'.abfd, ret'.name)
  ELSE NULL

RECURSIVE Walk(_, _)
Walk(R, s) ==
  IF s = NULL THEN << >>
  ELSE << s >> \o Walk(R, bfd_get_next_section_by_name(R, s))

VisitedByName(abfd, name) == Walk(Reg, bfd_get_section_by_name(Reg, abfd, name))

Occurrences(seq, x) == Cardinality({k \in 1..Len(seq) : seq[k] = x})

\* C7: for every bfd and name, the walk that starts at
\* bfd_get_section_by_name and goes on with bfd_get_next_section_by_name
\* ends, visits each section created in the bfd under the name exactly once,
\* and visits only sections of that bfd and name; a successful 'anyway'
\* creation always makes a section that was not there.  Stated for the
\* states that creation calls alone lead to.
AllReachableByName ==
  /\ \A abfd \in BFDs, name \in SectionNames :
       LET visited == VisitedByName(abfd, name)
       IN  /\ \A k \in 1..Len(created) :
                (/\ sects[created[k]].section.owner = abfd
                 /\ sects[created[k]].section.name = name)
                  => Occurrences(visited, created[k]) = 1
           /\ \A k \in 1..Len(visited) :
                /\ Occurrences(visited, visited[k]) = 1
                /\ sects[visited[k]].section.owner = abfd
                /\ sects[visited[k]].section.name = name
  /\ (/\ ret.op \in {"bfd_make_section_anyway", "bfd_make_section_anyway_with_flags"}
      /\ ret.val # NULL)
       => /\ created # << >>
          /\ ret.val = created[Len(created)]
          /\ Occurrences(created, ret.val) = 1

\* the walk over three sections of one name came to its end
AllReachableByNameWitness ==
  /\ ret.op = "bfd_get_next_section_by_name"
  /\ ret.val = NULL
  /\ Len(CreatedAs(ret.abfd, ret.name)) = 3
  /\ Len(VisitedByName(ret.abfd, ret.name)) = 3
  /\ ret.sec = VisitedByName(ret.abfd, ret.name)[3]

(***************************************************************************)
(* Registry accounting                                                     *)
(***************************************************************************)

\* C8: after creation calls and bfd_section_list_clear, section_count is the
\* number of sections reachable from the list head, section_last is the last
\* of them, the sections of the list are in the order of their creation
\* (ascending id), and the section at position k, counted from 0, has index
\* k.
RegistryAccounting ==
  \A abfd \in BFDs :
    LET l == SectionList(Reg, abfd)
    IN  /\ bfds[abfd].section_count = Len(l)
        /\ bfds[abfd].section_last = IF l = << >> THEN NULL ELSE l[Len(l)]
        /\ \A k \in 1..Len(l) :
             /\ sects[l[k]].section.index = k - 1
             /\ sects[l[k]].section.owner = abfd
             /\ \A m \in (k + 1)..Len(l) :
                  sects[l[k]].section.id < sects[l[m]].section.id

\* two sections made after a clear that dropped an earlier one
RegistryAccountingWitness ==
  /\ ret.op \in CreateOps
  /\ ret.val > NULL
  /\ Len(SectionList(Reg, ret.abfd)) = 2
  /\ SectionList(Reg, ret.abfd)[2] = ret.val
  /\ Len(created) = 3
  /\ bfds[ret.abfd].section_count = 2

(***************************************************************************)
(* Section ids                                                             *)
(***************************************************************************)

\* the sections in the list of some bfd
Listed(R) ==
  {s \in 1..Len(R.sects) :
     \E abfd \in DOMAIN R.bfds :
       \E k \in 1..Len(SectionList(R, abfd)) : SectionList(R, abfd)[k] = s}

\* C9: the id of every section in a list is at least FirstSectionId and
\* below the counter, no two of them share an id in whatever bfd they are;
\* a creation that adds a section gives it the value the counter had, which
\* is above every id given before, and advances the counter by one;
\* bfd_get_next_section_id returns the counter.
UniqueIds ==
  /\ [](\A s \in Listed(Reg) :
          /\ sects[s].section.id >= FirstSectionId
          /\ sects[s].section.id < section_id
          /\ \A t \in Listed(Reg) :
               sects[s].section.id = sects[t].section.id => s = t)
  /\ [][ /\ \A s \in Listed(Reg') \ Listed(Reg) :
              /\ ret'.op \in CreateOps
              /\ ret'.val = s
              /\ sects'[s].section.id = section_id
              /\ section_id' = section_id + 1
              /\ \A t \in Listed(Reg) :
                   sects[t].section.id < sects'[s].section.id
         /\ ret'.op = "bfd_get_next_section_id" =>
              /\ ret'.val = section_id
              /\ section_id' = section_id
       ]_vars

\* the counter read between a creation in one bfd and one in the other
UniqueIdsWitness ==
  /\ ret.op = "bfd_get_next_section_id"
  /\ ret.val = FirstSectionId + 2
  /\ Len(SectionList(Reg, 1)) = 1
  /\ Len(SectionList(Reg, 2)) = 1
  /\ sects[bfds[2].sections].section.id = FirstSectionId + 1

(***************************************************************************)
(* The hash table and the list                                             *)
(***************************************************************************)

\* C10: for every section of the list of a bfd, bfd_get_section_by_name
\* with the name of the section returns a section, and that section has the
\* same name.
HashListConsistency ==
  \A abfd \in BFDs :
    \A k \in 1..Len(SectionList(Reg, abfd)) :
      LET S == SectionList(Reg, abfd)[k]
          found == bfd_get_section_by_name(Reg, abfd, sects[S].section.name)
      IN  /\ found # NULL
          /\ sects[found].section.name = sects[S].section.name

\* a section renamed to the name of another section of the list, a third
\* keeping the old name
HashListConsistencyWitness ==
  /\ ret.op = "bfd_rename_section"
  /\ Len(SectionList(Reg, ret.abfd)) = 3
  /\ sects[ret.sec].section.name = ret.name
  /\ \E k \in 1..3 :
       /\ SectionList(Reg, ret.abfd)[k] # ret.sec
       /\ sects[SectionList(Reg, ret.abfd)[k]].section.name = ret.name
  /\ \E k \in 1..3 :
       sects[SectionList(Reg, ret.abfd)[k]].section.name # ret.name

(***************************************************************************)
(* Renaming                                                                *)
(***************************************************************************)

\* C11: bfd_rename_section gives the section the new name, makes it one of
\* the sections the lookup of the new name and bfd_get_next_section_by_name
\* lead to, takes it away from those the old name leads to (when the two
\* names differ), and leaves the list, the id and index of every section,
\* section_count and the id counter as they were.
RenameMovesEntry ==
  [][ ret'.op = "bfd_rename_section" =>
        LET sec == ret'.sec
            abfd == ret'.abfd
            oldname == sects[sec].section.name
        IN  /\ sects'[sec].section.name = ret'.name
            /\ Occurrences(Walk(Reg', bfd_get_section_by_name(Reg', abfd, ret'.name)),
                           sec) = 1
            /\ oldname # ret'.name =>
                 Occurrences(Walk(Reg', bfd_get_section_by_name(Reg', abfd, oldname)),
                             sec) = 0
            /\ SectionList(Reg', abfd) = SectionList(Reg, abfd)
            /\ bfds'[abfd].section_count = bfds[abfd].section_count
            /\ section_id' = section_id
            /\ Len(sects') = Len(sects)
            /\ \A s \in 1..Len(sects) :
                 /\ sects'[s].section.id = sects[s].section.id
                 /\ sects'[s].section.index = sects[s].section.index
    ]_vars

\* the second of three listed sections renamed away from the name the other
\* two keep
RenameMovesEntryWitness ==
  /\ ret.op = "bfd_rename_section"
  /\ Len(SectionList(Reg, ret.abfd)) = 3
  /\ SectionList(Reg, ret.abfd)[2] = ret.sec
  /\ sects[ret.sec].section.name = ret.name
  /\ bfd_get_section_by_name(Reg, ret.abfd, ret.name) = ret.sec
  /\ sects[SectionList(Reg, ret.abfd)[1]].section.name # ret.name
  /\ sects[SectionList(Reg, ret.abfd)[3]].section.name # ret.name
  /\ Len(Walk(Reg, SectionList(Reg, ret.abfd)[1])) = 2

(***************************************************************************)
(* The list macros                                                         *)
(***************************************************************************)

\* the sections in the list of abfd
InList(R, abfd) ==
  {SectionList(R, abfd)[k] : k \in 1..Len(SectionList(R, abfd))}

\* one bfd with MaxSections sections of one name
ListSetup ==
  LET R0 == [section_id |-> FirstSectionId, std_section |-> STD_SECTIONS,
             bfds |-> << NewBfd(<< "a", ".", "o" >>, {}, "write_direction") >>,
             sects |-> << >>]
      Make[n \in 0..MaxSections] ==
        IF n = 0 THEN R0 ELSE bfd_make_section_anyway(Make[n - 1], 1, "a", TRUE).R
  IN  Make[MaxSections]

InitList ==
  /\ section_id = ListSetup.section_id
  /\ bfds = ListSetup.bfds
  /\ sects = ListSetup.sects
  /\ backend = [s \in 1..Len(ListSetup.sects) |-> << >>]
  /\ EncryptInfo = NoEncryptInfo
  /\ bfd_error = "bfd_error_no_error"
  /\ ret = NoRet
  /\ created = [s \in 1..Len(ListSetup.sects) |-> s]
  /\ wrote = {}
  /\ bfd_std_section = STD_SECTIONS
  /\ test = TestIdle

SectionListRemove ==
  \E abfd \in BFDs :
    \E s \in InList(Reg, abfd) :
      /\ Running
      /\ Returns(Done(bfd_section_list_remove(Reg, abfd, s), 0), backend,
                 "bfd_section_list_remove", abfd, NullName, s, << >>)

SectionListAppend ==
  \E abfd \in BFDs :
    \E s \in SectionsOf(abfd) \ InList(Reg, abfd) :
      /\ Running
      /\ Returns(Done(bfd_section_list_append(Reg, abfd, s), 0), backend,
                 "bfd_section_list_append", abfd, NullName, s, << >>)

SectionListPrepend ==
  \E abfd \in BFDs :
    \E s \in SectionsOf(abfd) \ InList(Reg, abfd) :
      /\ Running
      /\ Returns(Done(bfd_section_list_prepend(Reg, abfd, s), 0), backend,
                 "bfd_section_list_prepend", abfd, NullName, s, << >>)

SectionListInsertAfter ==
  \E abfd \in BFDs :
    \E a \in InList(Reg, abfd), s \in SectionsOf(abfd) \ InList(Reg, abfd) :
      /\ Running
      /\ Returns(Done(bfd_section_list_insert_after(Reg, abfd, a, s), 0), backend,
                 "bfd_section_list_insert_after", abfd, NullName, s, << a >>)

SectionListInsertBefore ==
  \E abfd \in BFDs :
    \E b \in InList(Reg, abfd), s \in SectionsOf(abfd) \ InList(Reg, abfd) :
      /\ Running
      /\ Returns(Done(bfd_section_list_insert_before(Reg, abfd, b, s), 0), backend,
                 "bfd_section_list_insert_before", abfd, NullName, s, << b >>)

NextList ==
  \/ SectionListRemove
  \/ SectionListAppend
  \/ SectionListPrepend
  \/ SectionListInsertAfter
  \/ SectionListInsertBefore

SpecList == InitList /\ [][NextList]_vars

\* C12: under the five list macros the list stays a well-formed doubly
\* linked list: head and section_last are NULL together, and exactly when
\* no section is in the list; the head has no prev; section_last is the
\* section reached last from the head, and it has no next; the prev of the
\* next of a section is that section; no section is in the list twice.  A
\* macro that inserts adds its section to the list, bfd_section_list_remove
\* takes its section out, and none of them changes section_count or the
\* index of a section.
WellFormedList ==
  /\ [](\A abfd \in BFDs :
          LET l == SectionList(Reg, abfd)
          IN  /\ (bfds[abfd].sections = NULL) <=> (l = << >>)
              /\ (bfds[abfd].sections = NULL) <=> (bfds[abfd].section_last = NULL)
              /\ l # << >> =>
                   /\ sects[l[1]].section.prev = NULL
                   /\ bfds[abfd].section_last = l[Len(l)]
                   /\ sects[l[Len(l)]].section.next = NULL
              /\ \A k \in 1..(Len(l) - 1) :
                   /\ sects[l[k]].section.next = l[k + 1]
                   /\ sects[sects[l[k]].section.next].section.prev = l[k]
              /\ \A k \in 1..Len(l) : Occurrences(l, l[k]) = 1)
  /\ [][ /\ \A abfd \in BFDs :
              bfds'[abfd].section_count = bfds[abfd].section_count
         /\ \A s \in 1..Len(sects) :
              sects'[s].section.index = sects[s].section.index
         /\ ret'.op = "bfd_section_list_remove" =>
              InList(Reg', ret'.abfd) = InList(Reg, ret'.abfd) \ {ret'.sec}
         /\ ret'.op \in {"bfd_section_list_append", "bfd_section_list_prepend",
                         "bfd_section_list_insert_after",
                         "bfd_section_list_insert_before"} =>
              InList(Reg', ret'.abfd) = InList(Reg, ret'.abfd) \cup {ret'.sec}
       ]_vars

\* the list rebuilt in another order: the first section made is now the
\* last, put there by an insertion after the old tail
WellFormedListWitness ==
  /\ ret.op = "bfd_section_list_insert_after"
  /\ Len(SectionList(Reg, ret.abfd)) = MaxSections
  /\ SectionList(Reg, ret.abfd)[MaxSections] = ret.sec
  /\ ret.sec = 1
  /\ bfds[ret.abfd].section_last = 1
  /\ sects[1].section.index = 0
  /\ bfds[ret.abfd].section_count = MaxSections

(***************************************************************************)
(* Writes: bounds, preconditions, the writer's status                      *)
(***************************************************************************)

\* the size of the sections the writes below go to
IoSize == 100

\* (offset, count) of the writes: in the section, ending where it ends, and
\* beyond it by the offset, by the count and by their sum
IoRanges ==
  {<< 0, 0 >>, << 0, IoSize >>, << IoSize - 10, 10 >>, << IoSize - 10, 20 >>, << IoSize, 0 >>, << IoSize, 1 >>, << IoSize + 1, 0 >>,
   << 0, IoSize + 1 >>}

\* a bfd opened for writing with a section that has contents and a cache
\* (section->contents) and a section that has neither, and a bfd opened for
\* reading with a section that has contents and a cache
IoSetup ==
  LET R0 == [section_id |-> FirstSectionId, std_section |-> STD_SECTIONS,
             bfds |-> << NewBfd(<< "a", ".", "o" >>, {}, "write_direction"),
                         NewBfd(<< "b", ".", "o" >>, {}, "read_direction") >>,
             sects |-> << >>]
      c1 == bfd_make_section_with_flags(R0, 1, "a", {"SEC_HAS_CONTENTS"}, TRUE)
      s1 == bfd_set_section_size(c1.R, 1, c1.val, IoSize)
      c2 == bfd_make_section_with_flags(s1.R, 1, "b", {}, TRUE)
      s2 == bfd_set_section_size(c2.R, 1, c2.val, IoSize)
      c3 == bfd_make_section_with_flags(s2.R, 2, "a", {"SEC_HAS_CONTENTS"}, TRUE)
      s3 == bfd_set_section_size(c3.R, 2, c3.val, IoSize)
  IN  [s3.R EXCEPT !.sects[c1.val].section.contents = [k \in 1..IoSize |-> 0],
                   !.sects[c3.val].section.contents = [k \in 1..IoSize |-> 0]]

InitIO ==
  /\ section_id = IoSetup.section_id
  /\ bfds = IoSetup.bfds
  /\ sects = IoSetup.sects
  /\ backend = [s \in 1..Len(IoSetup.sects) |-> << >>]
  /\ EncryptInfo = NoEncryptInfo
  /\ bfd_error = "bfd_error_no_error"
  /\ ret = NoRet
  /\ created = [s \in 1..Len(IoSetup.sects) |-> s]
  /\ wrote = {}
  /\ bfd_std_section = STD_SECTIONS
  /\ test = TestIdle

\* bfd_set_section_contents, the record of the call holding the offset, the
\* count, the error the call has set, the caller's buffer before and after
\* the call, and the calls of the target's writer
WriteContents(ranges) ==
  \E abfd \in BFDs, range \in ranges, backend_ok \in BOOLEAN :
    \E sec \in SectionsOf(abfd) :
      \E r \in {bfd_set_section_contents(Reg, backend, EncryptInfo, abfd, sec,
                                         WriteData(range[2]), range[1], range[2],
                                         backend_ok)} :
        /\ Running
        /\ Returns(r, r.B, "bfd_set_section_contents", abfd,
                   sects[sec].section.name, sec,
                   << range[1], range[2], r.err, WriteData(range[2]), r.loc,
                      r.sent >>)

NextIO ==
  \/ WriteContents(IoRanges)
  \/ SetSectionSize

SpecIO == InitIO /\ [][NextIO]_vars

\* the parts of the record of a bfd_set_section_contents call
IsWriteCall(r) == r.op = "bfd_set_section_contents" /\ Len(r.args) = 6
CallOffset(r) == r.args[1]
CallCount(r) == r.args[2]
CallError(r) == r.args[3]
CallBuffer(r) == r.args[4]
CallBufferAfter(r) == r.args[5]
CallSent(r) == r.args[6]

HasContents(sec) == "SEC_HAS_CONTENTS" \in sects[sec].section.flags

\* the bfd was opened for writing, or for reading and writing
OpenedForWriting(abfd) ==
  bfds[abfd].direction \in {"write_direction", "both_direction"}

\* C13: a write to a section that has contents, in a bfd opened for writing,
\* returns FALSE with bfd_error_bad_value exactly when offset + count is
\* larger than the size of the section; a range that ends where the section
\* ends is not turned away.
WriteBounds ==
  (/\ IsWriteCall(ret)
   /\ OpenedForWriting(ret.abfd)
   /\ HasContents(ret.sec)) =>
     /\ (ret.val = 0 /\ CallError(ret) = "bfd_error_bad_value")
          <=> (CallOffset(ret) + CallCount(ret) > sects[ret.sec].section.size)
     /\ CallError(ret) = "bfd_error_bad_value" => bfd_error = "bfd_error_bad_value"

\* the last 10 bytes of a section of 100 written, after a range was turned
\* away
WriteBoundsWitness ==
  /\ IsWriteCall(ret)
  /\ sects[ret.sec].section.size = 100
  /\ CallOffset(ret) = 90
  /\ CallCount(ret) = 10
  /\ ret.val = 1
  /\ bfd_error = "bfd_error_bad_value"
  /\ Len(backend[ret.sec]) = 100

PreconditionErrors ==
  {"bfd_error_invalid_operation", "bfd_error_no_contents", "bfd_error_bad_value"}

\* a call that has set one of the three errors has changed nothing: no call
\* of the target's writer, the sections (their caches) and the bfds
\* (output_has_begun) as before
FailsWithoutEffect ==
  (IsWriteCall(ret') /\ CallError(ret') \in PreconditionErrors) =>
     /\ ret'.val = 0
     /\ CallSent(ret') = << >>
     /\ UNCHANGED << section_id, bfds, sects, backend >>

\* C14: a write to a section without SEC_HAS_CONTENTS returns FALSE with
\* bfd_error_no_contents; to a section that has contents, in a bfd not
\* opened for writing, it returns FALSE with bfd_error_bad_value when the
\* range is beyond the size and with bfd_error_invalid_operation when it is
\* not; a write that sets one of the three errors has no other effect.
WritePreconditions ==
  [][ /\ IsWriteCall(ret') =>
           /\ ~HasContents(ret'.sec) =>
                ret'.val = 0 /\ CallError(ret') = "bfd_error_no_contents"
           /\ (/\ HasContents(ret'.sec)
               /\ ~OpenedForWriting(ret'.abfd)) =>
                /\ ret'.val = 0
                /\ CallError(ret') =
                     IF CallOffset(ret') + CallCount(ret') > sects[ret'.sec].section.size
                     THEN "bfd_error_bad_value"
                     ELSE "bfd_error_invalid_operation"
      /\ FailsWithoutEffect
    ]_vars

\* a write in bounds refused in the bfd opened for reading, the cache of the
\* section as it was
WritePreconditionsWitness ==
  /\ IsWriteCall(ret)
  /\ ~OpenedForWriting(ret.abfd)
  /\ HasContents(ret.sec)
  /\ CallCount(ret) = 10
  /\ ret.val = 0
  /\ bfd_error = "bfd_error_invalid_operation"
  /\ sects[ret.sec].section.contents = [k \in 1..IoSize |-> 0]
  /\ backend[ret.sec] = << >>

\* the same with bfd_error_invalid_operation for every write in a bfd not
\* opened for writing
WritePreconditionsAnyOrder ==
  [][ /\ IsWriteCall(ret') =>
           /\ ~OpenedForWriting(ret'.abfd) =>
                ret'.val = 0 /\ CallError(ret') = "bfd_error_invalid_operation"
           /\ ~HasContents(ret'.sec) =>
                ret'.val = 0 /\ CallError(ret') = "bfd_error_no_contents"
      /\ FailsWithoutEffect
    ]_vars

\* C16: when the target's writer returns FALSE the write returns FALSE,
\* output_has_begun keeps its value, nothing reaches the file, and the
\* sections are as before but for the bytes copied to the cache of the
\* section; output_has_begun becomes TRUE only in a write whose writer
\* returned TRUE, and bfd_set_section_size succeeds as long as no write to
\* the bfd has.
WriterFailure ==
  [][ /\ (IsWriteCall(ret') /\ CallSent(ret') # << >> /\ ret'.val = 0) =>
           /\ bfds' = bfds
           /\ backend' = backend
           /\ section_id' = section_id
           /\ sects' =
                IF sects[ret'.sec].section.contents = << >> THEN sects
                ELSE [sects EXCEPT ![ret'.sec].section.contents =
                        Overwrite(@, CallOffset(ret'), CallBuffer(ret'))]
      /\ \A abfd \in BFDs :
           (bfds'[abfd].output_has_begun /\ ~bfds[abfd].output_has_begun) =>
              /\ IsWriteCall(ret')
              /\ ret'.abfd = abfd
              /\ ret'.val = 1
              /\ CallSent(ret') # << >>
      /\ (ret'.op = "bfd_set_section_size" /\ ret'.abfd \notin wrote) =>
           ret'.val = 1
    ]_vars

\* a section resized after a write to it that the writer refused: the bytes
\* are in the cache and not in the file
WriterFailureWitness ==
  /\ ret.op = "bfd_set_section_size"
  /\ ret.val = 1
  /\ ~bfds[ret.abfd].output_has_begun
  /\ backend[ret.sec] = << >>
  /\ sects[ret.sec].section.contents # << >>
  /\ sects[ret.sec].section.contents[IoSize] = WriteData(10)[10]

(***************************************************************************)
(* Writes: what the target's writer is handed                              *)
(***************************************************************************)

\* (offset, count) of the writes: across the end of the first block, and
\* from the second byte of the second block to the first of the third
ForwardRanges ==
  {<< AES_BLOCKLEN - 1, 3 >>, << AES_BLOCKLEN + 1, AES_BLOCKLEN >>}

\* a bfd with BFD_ENCRYPTED holding a code section and a data section, and a
\* bfd without it holding a code section; both have the file name of the
\* component
ForwardSetup ==
  LET R0 == [section_id |-> FirstSectionId, std_section |-> STD_SECTIONS,
             bfds |-> << NewBfd(<< "o", "/", "a", ".", "o" >>, {"BFD_ENCRYPTED"},
                                "write_direction"),
                         NewBfd(<< "a", ".", "o" >>, {}, "write_direction") >>,
             sects |-> << >>]
      c1 == bfd_make_section_with_flags(R0, 1, "a", {"SEC_CODE", "SEC_HAS_CONTENTS"}, TRUE)
      s1 == bfd_set_section_size(c1.R, 1, c1.val, SecSize)
      c2 == bfd_make_section_with_flags(s1.R, 1, "b", {"SEC_HAS_CONTENTS"}, TRUE)
      s2 == bfd_set_section_size(c2.R, 1, c2.val, SecSize)
      c3 == bfd_make_section_with_flags(s2.R, 2, "a", {"SEC_CODE", "SEC_HAS_CONTENTS"}, TRUE)
  IN  bfd_set_section_size(c3.R, 2, c3.val, SecSize).R

\* the component is registered, or no component is
InitForward ==
  /\ section_id = ForwardSetup.section_id
  /\ bfds = ForwardSetup.bfds
  /\ sects = ForwardSetup.sects
  /\ backend = [s \in 1..Len(ForwardSetup.sects) |-> << >>]
  /\ EncryptInfo \in {NoEncryptInfo,
                      [Components |-> << OneComponent >>, Verbose |-> FALSE,
                       OutComponent |-> NULL]}
  /\ bfd_error = "bfd_error_no_error"
  /\ ret = NoRet
  /\ created = [s \in 1..Len(ForwardSetup.sects) |-> s]
  /\ wrote = {}
  /\ bfd_std_section = STD_SECTIONS
  /\ test = TestIdle

NextForward == WriteContents(ForwardRanges)

SpecForward == InitForward /\ [][NextForward]_vars

\* the component of a code section of a bfd with BFD_ENCRYPTED, NULL when
\* the section is not one or no component has the file name of the bfd
ComponentOf(abfd, sec) ==
  IF "SEC_CODE" \in sects[sec].section.flags /\ "BFD_ENCRYPTED" \in bfds[abfd].flags
  THEN ComponentLookUp(bfds[abfd].filename, EncryptInfo.Components)
  ELSE NULL

\* the first n bytes of the keystream of a component: the all-zero buffer
\* encrypted from the start
Keystream(Comp, n) ==
  AES_CTR_xcrypt_buffer(
    AES_ctx_set_iv(AES_init_ctx(NoCtx, Comp.Key), Comp.Iv, Comp.Nonce),
    [k \in 1..n |-> 0], n).buf

\* buf xor stream[offset .. offset + Len(buf))
XorAt(buf, stream, offset) == [k \in 1..Len(buf) |-> Xor(buf[k], stream[offset + k])]

\* C15: in a write that reaches the target's writer, the writer is handed
\* the caller's bytes xor the keystream bytes offset .. offset + count - 1
\* when the section is a code section of a bfd with BFD_ENCRYPTED whose
\* component is registered, and the caller's bytes otherwise; the caller's
\* buffer is after the call what it was before; when the writer returns
\* TRUE the bytes it was handed are in the file at the offset.
WriteForwarding ==
  (IsWriteCall(ret) /\ CallSent(ret) # << >>) =>
     /\ Len(CallSent(ret)) = 1
     /\ CallSent(ret)[1] =
          IF ComponentOf(ret.abfd, ret.sec) # NULL
          THEN XorAt(CallBuffer(ret),
                     Keystream(EncryptInfo.Components[ComponentOf(ret.abfd, ret.sec)],
                               SecSize),
                     CallOffset(ret))
          ELSE CallBuffer(ret)
     /\ CallBufferAfter(ret) = CallBuffer(ret)
     /\ ret.val = 1 =>
          SubSeq(backend[ret.sec], CallOffset(ret) + 1,
                 CallOffset(ret) + CallCount(ret)) = CallSent(ret)[1]

\* a block of bytes written from the second byte of the second block of the
\* code section of the registered component
WriteForwardingWitness ==
  /\ IsWriteCall(ret)
  /\ ComponentOf(ret.abfd, ret.sec) # NULL
  /\ CallOffset(ret) = AES_BLOCKLEN + 1
  /\ CallCount(ret) = AES_BLOCKLEN
  /\ ret.val = 1
  /\ CallSent(ret) # << >>
  /\ CallSent(ret)[1] # CallBuffer(ret)
  /\ IsBytes(CallSent(ret)[1])

(***************************************************************************)
(* Reads                                                                   *)
(***************************************************************************)

\* size and the two nonzero rawsizes of the section that is read, one below
\* the size and one above it; the bytes the file has for the section
ReadSize == 20
RawSizeChoices == {0, ReadSize - 2, ReadSize + 2}
FileBytes == [k \in 1..(ReadSize + 2) |-> (29 * k + 3) % 256]

\* the bytes of the cache, when the section has one
CacheBytes == [k \in 1..(ReadSize + 2) |-> (5 * k) % 256]

\* the caller's buffer before a read
DestLen == 6
DestBytes == [k \in 1..DestLen |-> 170]

\* (offset, count) of the reads: nothing at the start and nothing beyond
\* every size, across the end of the first block, and from the second block
\* to the smaller rawsize, the size, the larger rawsize and beyond it
ReadRanges ==
  {<< 0, 0 >>, << ReadSize + 3, 0 >>, << AES_BLOCKLEN - 1, 3 >>,
   << AES_BLOCKLEN + 1, 1 >>, << AES_BLOCKLEN + 1, 3 >>,
   << AES_BLOCKLEN + 1, 5 >>, << AES_BLOCKLEN + 1, DestLen >>}

ReadFlagChoices ==
  {{"SEC_HAS_CONTENTS", "SEC_CODE"}, {"SEC_HAS_CONTENTS"}, {"SEC_CODE"},
   {"SEC_HAS_CONTENTS", "SEC_CODE", "SEC_CONSTRUCTOR"},
   {"SEC_HAS_CONTENTS", "SEC_CODE", "SEC_IN_MEMORY"},
   {"SEC_HAS_CONTENTS", "SEC_CONSTRUCTOR", "SEC_IN_MEMORY"}}

\* one bfd with one section, made by the creation calls; rawsize and
\* contents are fields the client of the library sets
ReadSetup(direction, bflags, sflags, rawsize, contents) ==
  LET R0 == [section_id |-> FirstSectionId, std_section |-> STD_SECTIONS,
             bfds |-> << NewBfd(<< "a", ".", "o" >>, bflags, direction) >>,
             sects |-> << >>]
      c1 == bfd_make_section_with_flags(R0, 1, "a", sflags, TRUE)
      s1 == bfd_set_section_size(c1.R, 1, c1.val, ReadSize)
  IN  [s1.R EXCEPT !.sects[c1.val].section.rawsize = rawsize,
                   !.sects[c1.val].section.contents = contents]

InitRead ==
  /\ \E direction \in {"read_direction", "write_direction", "both_direction"},
        bflags \in {{}, {"BFD_ENCRYPTED"}},
        sflags \in ReadFlagChoices,
        rawsize \in RawSizeChoices,
        contents \in {<< >>, CacheBytes} :
       /\ section_id = ReadSetup(direction, bflags, sflags, rawsize, contents).section_id
       /\ bfds = ReadSetup(direction, bflags, sflags, rawsize, contents).bfds
       /\ sects = ReadSetup(direction, bflags, sflags, rawsize, contents).sects
  /\ backend = << FileBytes >>
  /\ EncryptInfo = [Components |-> << OneComponent >>, Verbose |-> FALSE,
                       OutComponent |-> NULL]
  /\ bfd_error = "bfd_error_no_error"
  /\ ret = NoRet
  /\ created = << 1 >>
  /\ wrote = {}
  /\ bfd_std_section = STD_SECTIONS
  /\ test = TestIdle

\* bfd_get_section_contents, the record of the call holding the offset, the
\* count, the error the call has set, the caller's buffer before and after
\* the call, and the calls of the target's reader
ReadContents ==
  \E abfd \in BFDs, range \in ReadRanges, backend_ok \in BOOLEAN :
    \E sec \in SectionsOf(abfd) :
      \E r \in {bfd_get_section_contents(Reg, backend, EncryptInfo, abfd, sec,
                                         DestBytes, range[1], range[2],
                                         backend_ok)} :
        /\ Running
        /\ Returns(r, backend, "bfd_get_section_contents", abfd,
                   sects[sec].section.name, sec,
                   << range[1], range[2], r.err, DestBytes, r.loc, r.got >>)

NextRead == ReadContents

SpecRead == InitRead /\ [][NextRead]_vars

IsReadCall(r) == r.op = "bfd_get_section_contents" /\ Len(r.args) = 6

\* the calls of the target's reader in a call of bfd_get_section_contents
CallGot(r) == r.args[6]

HasFlag(sec, flag) == flag \in sects[sec].section.flags


\* rawsize when the bfd is not opened for writing only and rawsize is not 0,
\* and size otherwise
SizeRead(abfd, sec) ==
  IF bfds[abfd].direction # "write_direction" /\ sects[sec].section.rawsize # 0
  THEN sects[sec].section.rawsize
  ELSE sects[sec].section.size

\* the target's reader is called with the range; a read of a section with
\* SEC_IN_MEMORY and no contents takes the flag from the section and sets
\* bfd_error_invalid_operation
ReachesReader(r) ==
  /\ CallError(r) # "bfd_error_invalid_operation"
  /\ ~HasFlag(r.sec, "SEC_CONSTRUCTOR")
  /\ CallOffset(r) + CallCount(r) <= SizeRead(r.abfd, r.sec)
  /\ CallCount(r) > 0
  /\ HasFlag(r.sec, "SEC_HAS_CONTENTS")
  /\ ~HasFlag(r.sec, "SEC_IN_MEMORY")

\* C17: a read of a section without SEC_CONSTRUCTOR and without
\* SEC_IN_MEMORY, with SEC_HAS_CONTENTS, of a non-empty range within the
\* size calls the target's reader once, and no other read calls it; the call
\* returns what the reader returns; when the reader returns TRUE the first
\* count bytes of the caller's buffer are the bytes of the file at the offset
\* xor the keystream bytes offset .. offset + count - 1 when the section is a
\* code section of a bfd with BFD_ENCRYPTED whose component is registered;
\* otherwise they are what the reader left; the bytes after them are kept.
ReadDecryption ==
  IsReadCall(ret) =>
    /\ (CallGot(ret) # << >>) = ReachesReader(ret)
    /\ CallGot(ret) # << >> =>
         /\ Len(CallGot(ret)) = 1
         /\ ret.val = CallGot(ret)[1].status
         /\ CallGot(ret)[1].status = 1 =>
              CallGot(ret)[1].buf =
                SubSeq(backend[ret.sec], CallOffset(ret) + 1,
                       CallOffset(ret) + CallCount(ret))
         /\ (ComponentOf(ret.abfd, ret.sec) # NULL /\ CallGot(ret)[1].status = 1) =>
              SubSeq(CallBufferAfter(ret), 1, CallCount(ret)) =
                XorAt(CallGot(ret)[1].buf,
                      Keystream(EncryptInfo.Components[ComponentOf(ret.abfd, ret.sec)],
                                ReadSize + 2),
                      CallOffset(ret))
         /\ ComponentOf(ret.abfd, ret.sec) = NULL =>
              SubSeq(CallBufferAfter(ret), 1, CallCount(ret)) = CallGot(ret)[1].buf
         /\ \A k \in (CallCount(ret) + 1)..Len(CallBuffer(ret)) :
              CallBufferAfter(ret)[k] = CallBuffer(ret)[k]

\* a read across the end of the first block of the keystream that the
\* reader serves, of a section of a registered component
ReadDecryptionWitness ==
  /\ IsReadCall(ret)
  /\ CallGot(ret) # << >>
  /\ ComponentOf(ret.abfd, ret.sec) # NULL
  /\ ret.val = 1
  /\ CallOffset(ret) = AES_BLOCKLEN - 1
  /\ CallCount(ret) = 3
  /\ SubSeq(CallBufferAfter(ret), 1, 3) # CallGot(ret)[1].buf

\* C18: a read of no bytes of a section with SEC_CONSTRUCTOR, or at an
\* offset that is not beyond the size that bounds reads, returns TRUE, sets
\* no error, does not call the target's reader and leaves the caller's
\* buffer as it was; a read of no bytes at an offset beyond that size, of a
\* section without SEC_CONSTRUCTOR, returns FALSE with bfd_error_bad_value.
EmptyRead ==
  (IsReadCall(ret) /\ CallCount(ret) = 0) =>
    /\ CallGot(ret) = << >>
    /\ CallBufferAfter(ret) = CallBuffer(ret)
    /\ IF \/ HasFlag(ret.sec, "SEC_CONSTRUCTOR")
          \/ CallOffset(ret) <= SizeRead(ret.abfd, ret.sec)
       THEN ret.val = 1 /\ CallError(ret) = "unchanged"
       ELSE ret.val = 0 /\ CallError(ret) = "bfd_error_bad_value"

\* a read of no bytes within the size that returns TRUE
EmptyReadWitness ==
  /\ IsReadCall(ret)
  /\ CallCount(ret) = 0
  /\ ~HasFlag(ret.sec, "SEC_CONSTRUCTOR")
  /\ HasFlag(ret.sec, "SEC_HAS_CONTENTS")
  /\ CallOffset(ret) <= SizeRead(ret.abfd, ret.sec)
  /\ ret.val = 1

\* every read of no bytes returns TRUE, does not call the target's reader
\* and leaves the caller's buffer as it was
EmptyReadAlways ==
  (IsReadCall(ret) /\ CallCount(ret) = 0) =>
    /\ ret.val = 1
    /\ CallGot(ret) = << >>
    /\ CallBufferAfter(ret) = CallBuffer(ret)

\* the first count bytes of the caller's buffer are 0 after the call and the
\* bytes after them are kept
ZeroFilled(r) ==
  \A k \in 1..Len(CallBuffer(r)) :
    CallBufferAfter(r)[k] = IF k <= CallCount(r) THEN 0 ELSE CallBuffer(r)[k]

\* C19: a read of a section with SEC_CONSTRUCTOR, at every offset and of
\* every count, and a read of a non-empty range within the size of a section
\* without SEC_HAS_CONTENTS, sets the first count bytes of the caller's
\* buffer to 0, returns TRUE and does not call the target's reader.
ZeroFillReads ==
  (/\ IsReadCall(ret)
   /\ \/ HasFlag(ret.sec, "SEC_CONSTRUCTOR")
      \/ /\ ~HasFlag(ret.sec, "SEC_HAS_CONTENTS")
         /\ CallCount(ret) > 0
         /\ CallOffset(ret) + CallCount(ret) <= SizeRead(ret.abfd, ret.sec)) =>
    /\ ZeroFilled(ret)
    /\ ret.val = 1
    /\ CallError(ret) = "unchanged"
    /\ CallGot(ret) = << >>

\* a read beyond the size of a section with SEC_CONSTRUCTOR, and a read
\* within the size of a section without SEC_HAS_CONTENTS
ZeroFillReadsWitness ==
  /\ IsReadCall(ret)
  /\ CallCount(ret) > 0
  /\ ZeroFilled(ret)
  /\ \/ /\ HasFlag(ret.sec, "SEC_CONSTRUCTOR")
        /\ CallOffset(ret) + CallCount(ret) > sects[ret.sec].section.size
        /\ CallOffset(ret) + CallCount(ret) > sects[ret.sec].section.rawsize
     \/ /\ ~HasFlag(ret.sec, "SEC_HAS_CONTENTS")
        /\ ~HasFlag(ret.sec, "SEC_CONSTRUCTOR")

\* C20: a read of a section without SEC_CONSTRUCTOR returns FALSE with
\* bfd_error_bad_value exactly when offset + count is larger than rawsize,
\* for a bfd not opened for writing only and a rawsize that is not 0, and
\* exactly when it is larger than size otherwise.
ReadBounds ==
  (IsReadCall(ret) /\ ~HasFlag(ret.sec, "SEC_CONSTRUCTOR")) =>
    ((ret.val = 0 /\ CallError(ret) = "bfd_error_bad_value")
       = (CallOffset(ret) + CallCount(ret) >
            IF bfds[ret.abfd].direction # "write_direction"
               /\ sects[ret.sec].section.rawsize # 0
            THEN sects[ret.sec].section.rawsize
            ELSE sects[ret.sec].section.size))

\* a read within rawsize and beyond size that is served, and a read within
\* size and beyond rawsize that is turned away
ReadBoundsWitness ==
  /\ IsReadCall(ret)
  /\ ~HasFlag(ret.sec, "SEC_CONSTRUCTOR")
  /\ bfds[ret.abfd].direction # "write_direction"
  /\ \/ /\ CallOffset(ret) + CallCount(ret) > sects[ret.sec].section.size
        /\ CallOffset(ret) + CallCount(ret) <= sects[ret.sec].section.rawsize
        /\ ret.val = 1
     \/ /\ CallOffset(ret) + CallCount(ret) <= sects[ret.sec].section.size
        /\ CallOffset(ret) + CallCount(ret) > sects[ret.sec].section.rawsize
        /\ sects[ret.sec].section.rawsize # 0
        /\ ret.val = 0


\* the step is a call of bfd_get_section_contents for a non-empty range
\* within the size of a section that has SEC_HAS_CONTENTS and SEC_IN_MEMORY
\* and no contents
ReadsMissingCache ==
  /\ IsReadCall(ret')
  /\ CallCount(ret') > 0
  /\ CallOffset(ret') + CallCount(ret') <= SizeRead(ret'.abfd, ret'.sec)
  /\ HasFlag(ret'.sec, "SEC_HAS_CONTENTS")
  /\ HasFlag(ret'.sec, "SEC_IN_MEMORY")
  /\ sects[ret'.sec].section.contents = << >>

\* the call has returned FALSE with bfd_error_invalid_operation, without a
\* call of the target's reader and with the caller's buffer as it was
MissingCacheFailure(r) ==
  /\ IsReadCall(r)
  /\ r.val = 0
  /\ CallError(r) = "bfd_error_invalid_operation"
  /\ CallGot(r) = << >>
  /\ CallBufferAfter(r) = CallBuffer(r)

\* C21: a read of a non-empty range within the size of a section without
\* SEC_CONSTRUCTOR that has SEC_HAS_CONTENTS and SEC_IN_MEMORY and no
\* contents returns FALSE with bfd_error_invalid_operation, takes
\* SEC_IN_MEMORY from the flags of the section and nothing else, does not
\* call the target's reader and leaves the caller's buffer as it was; the
\* same read made next calls the target's reader.  With SEC_CONSTRUCTOR the
\* read returns TRUE and keeps SEC_IN_MEMORY.
MissingCache ==
  /\ [][(ReadsMissingCache /\ ~HasFlag(ret'.sec, "SEC_CONSTRUCTOR")) =>
          /\ MissingCacheFailure(ret')
          /\ sects'[ret'.sec].section.flags =
               sects[ret'.sec].section.flags \ {"SEC_IN_MEMORY"}
          /\ bfd_error' = "bfd_error_invalid_operation"]_vars
  /\ [][(ReadsMissingCache /\ HasFlag(ret'.sec, "SEC_CONSTRUCTOR")) =>
          (ret'.val = 1 /\ sects' = sects)]_vars
  /\ [][(/\ MissingCacheFailure(ret)
         /\ IsReadCall(ret')
         /\ ret'.sec = ret.sec
         /\ CallOffset(ret') = CallOffset(ret)
         /\ CallCount(ret') = CallCount(ret)) =>
          (CallGot(ret') # << >> /\ ret'.val = CallGot(ret')[1].status)]_vars

\* the same read, after the read that failed for the contents that are not
\* there, has been served by the target's reader
MissingCacheWitness ==
  /\ IsReadCall(ret)
  /\ CallGot(ret) # << >>
  /\ ret.val = 1
  /\ bfd_error = "bfd_error_invalid_operation"
  /\ sects[ret.sec].section.contents = << >>

\* every read of a non-empty range within the size of a section that has
\* SEC_HAS_CONTENTS and SEC_IN_MEMORY and no contents returns FALSE with
\* bfd_error_invalid_operation and takes SEC_IN_MEMORY from the flags
MissingCacheAlways ==
  [][ReadsMissingCache =>
        /\ MissingCacheFailure(ret')
        /\ "SEC_IN_MEMORY" \notin sects'[ret'.sec].section.flags]_vars

(***************************************************************************)
(* The encryption infos: the file of components and its loading            *)
(***************************************************************************)

ERR_NOERR_EOF == -1
ERR_NOERR == 0
ERR_UNEXPECTED_EOF == 1
ERR_EXPECT_COMP == 2
ERR_EXPECT_SET == 3
ERR_EXPECT_STRING == 4
ERR_EXPECT_VENDOR == 5
ERR_EXPECT_SERVER == 6
ERR_EXPECT_KEY == 7
ERR_BADKEYLEN == 9
ERR_KEYNONHEX == 10
ERR_EXPECT_USER == 11
ERR_EXPECT_SECTION == 12
ERR_EXPECT_COMP_OR_IV == 13
ERR_WRONG_COMP == 14

AES_KEY_LEN == 16

\* a pointer that was never set: the UserAuth of a component malloc gave
UninitPtr == << "(uninitialised)" >>

\* a token and the string GetNextToken leaves in Str with it
Token(tok, str) == [tok |-> tok, str |-> str]

HexDigits ==
  << "0", "1", "2", "3", "4", "5", "6", "7", "8", "9",
     "a", "b", "c", "d", "e", "f" >>

\* tolower, on the letters that are hexadecimal digits; every other capital
\* letter is no hexadecimal digit before and after it
tolower(c) ==
  CASE c = "A" -> "a" [] c = "B" -> "b" [] c = "C" -> "c"
    [] c = "D" -> "d" [] c = "E" -> "e" [] c = "F" -> "f"
    [] OTHER -> c

\* S0 - '0' or S0 - 'a' + 10, and -1 for a character that is neither
HexValue(c) ==
  IF \E k \in 1..16 : HexDigits[k] = c
  THEN (CHOOSE k \in 1..16 : HexDigits[k] = c) - 1
  ELSE -1

\* a conversion that takes the capital letters for no digits
ToHexLowerCase(S) ==
  IF HexValue(S[1]) = -1 \/ HexValue(S[2]) = -1
  THEN -1
  ELSE HexValue(S[1]) * 16 + HexValue(S[2])

ToHex(S) ==
  LET R0 == HexValue(tolower(S[1]))
      R1 == HexValue(tolower(S[2]))
  IN  IF R0 = -1 THEN -1
      ELSE IF R1 = -1 THEN -1
      ELSE R0 * 16 + R1

\* the key is kept by the caller when err is ERR_NOERR only
CheckKey(Str, Length) ==
  IF Len(Str) # Length * 2
  THEN [err |-> ERR_BADKEYLEN, Key |-> << >>]
  ELSE IF \E i \in 1..Length : ToHex(SubSeq(Str, 2 * i - 1, 2 * i)) = -1
  THEN [err |-> ERR_KEYNONHEX, Key |-> << >>]
  ELSE [err |-> ERR_NOERR,
        Key |-> [i \in 1..Length |-> ToHex(SubSeq(Str, 2 * i - 1, 2 * i))]]

\* the list is the sequence of the components from *Head on; Pt is the place
\* of the new component in it, NULL when the name is in the list
PushComponent(Name, HeadComp) ==
  IF \E k \in 1..Len(HeadComp) : HeadComp[k].Name = Name
  THEN [Pt |-> NULL, Head |-> HeadComp]
  ELSE [Pt |-> Len(HeadComp) + 1,
        Head |-> Append(HeadComp, [Name |-> Name, Vendor |-> << >>, Server |-> << >>,
                               UserAuth |-> UninitPtr, Key |-> << >>, Iv |-> << >>,
                               Nonce |-> << >>])]

\* the file is the sequence of the tokens the lexer finds in it, a name that
\* is a keyword being the token of the keyword; at the end of the file and
\* after it the token is T_EOFT
GetNextToken(Fi, pos) ==
  IF pos > Len(Fi) THEN Token("T_EOFT", << >>) ELSE Fi[pos]

SectionTokens ==
  {"T_COMPONENT", "T_VENDOR", "T_SERVER", "T_USER", "T_KEY", "T_IV"}

\* what OneSection returns: the error, the section, the string, the place in
\* the file and EncryptInfo.Verbose
SectionOf(err, tok, str, pos, Verbose) ==
  [err |-> err, Section |-> tok, Content |-> str, pos |-> pos, Verbose |-> Verbose]

OneSection(Fi, pos, Verbose) ==
  LET t1 == GetNextToken(Fi, pos)
      v  == t1.tok = "T_VERBOSE"
      t2 == IF v THEN GetNextToken(Fi, pos + 1) ELSE t1
      p2 == IF v THEN pos + 2 ELSE pos + 1
      t3 == GetNextToken(Fi, p2)
      t4 == GetNextToken(Fi, p2 + 1)
  IN  IF t1.tok = "T_EOFT"
      THEN SectionOf(ERR_NOERR_EOF, "none", << >>, pos, Verbose)
      ELSE IF t2.tok = "T_EOFT"
      THEN SectionOf(ERR_NOERR_EOF, "none", << >>, p2, TRUE)
      ELSE IF t2.tok \notin SectionTokens
      THEN SectionOf(ERR_EXPECT_SECTION, "none", t2.str, p2, Verbose \/ v)
      ELSE IF t3.tok = "T_EOFT"
      THEN SectionOf(ERR_UNEXPECTED_EOF, t2.tok, << >>, p2 + 1, Verbose \/ v)
      ELSE IF t3.tok # "T_SET"
      THEN SectionOf(ERR_EXPECT_SET, t2.tok, t3.str, p2 + 1, Verbose \/ v)
      ELSE IF t4.tok = "T_EOFT"
      THEN SectionOf(ERR_UNEXPECTED_EOF, t2.tok, << >>, p2 + 2, Verbose \/ v)
      ELSE IF t4.tok # "T_STRING"
      THEN SectionOf(ERR_EXPECT_STRING, t2.tok, t4.str, p2 + 2, Verbose \/ v)
      ELSE SectionOf(ERR_NOERR, t2.tok, t4.str, p2 + 2, Verbose \/ v)

\* what ProcessComponents returns: the error, the list from *Head on,
\* EncryptInfo.Verbose, and whether the process was killed on the way
Parsed(err, HeadComp, Verbose) ==
  [err |-> err, Head |-> HeadComp, Verbose |-> Verbose, killed |-> FALSE]

\* (*Comp)->Vendor = strdup (Str) with *Comp NULL: a store at the address of
\* a field of the object at address 0
Killed(HeadComp, Verbose) ==
  [err |-> ERR_NOERR, Head |-> HeadComp, Verbose |-> Verbose, killed |-> TRUE]


\* the value of F for the value of v, v being computed once
Bind(v, F(_)) == CHOOSE y \in {F(x) : x \in {v}} : TRUE

\* (*Comp)->Key = Key; (*Comp)->Iv = 0; (*Comp)->Nonce = 0
WithKey(HeadComp, Comp, Key) ==
  [HeadComp EXCEPT ![Comp].Key = Key, ![Comp].Iv = << >>, ![Comp].Nonce = << >>]

RECURSIVE ComponentRecord(_, _, _, _, _)
\* the body of the loop of ProcessComponents: the sections of the component
\* Comp from Vendor on, and the Component section of the next one
ComponentRecord(Fi, pos, Comp, HeadComp, Verbose) ==
  Bind(OneSection(Fi, pos, Verbose), LAMBDA vendor :
    IF vendor.err # ERR_NOERR
    THEN Parsed(vendor.err, HeadComp, vendor.Verbose)
    ELSE IF vendor.Section # "T_VENDOR"
    THEN Parsed(ERR_EXPECT_VENDOR, HeadComp, vendor.Verbose)
    ELSE IF Comp = NULL
    THEN Killed(HeadComp, vendor.Verbose)
    ELSE
  Bind([HeadComp EXCEPT ![Comp].Vendor = vendor.Content], LAMBDA H1 :
  Bind(OneSection(Fi, vendor.pos, vendor.Verbose), LAMBDA server :
    IF server.err # ERR_NOERR
    THEN Parsed(server.err, H1, server.Verbose)
    ELSE IF server.Section # "T_SERVER"
    THEN Parsed(ERR_EXPECT_SERVER, H1, server.Verbose)
    ELSE
  Bind([H1 EXCEPT ![Comp].Server = server.Content], LAMBDA H2 :
  Bind(OneSection(Fi, server.pos, server.Verbose), LAMBDA user :
    IF user.err # ERR_NOERR
    THEN Parsed(user.err, H2, user.Verbose)
    ELSE IF user.Section # "T_USER"
    THEN Parsed(ERR_EXPECT_USER, H2, user.Verbose)
    ELSE
  Bind([H2 EXCEPT ![Comp].UserAuth = user.Content], LAMBDA H3 :
  Bind(OneSection(Fi, user.pos, user.Verbose), LAMBDA key :
    IF key.err # ERR_NOERR
    THEN Parsed(key.err, H3, key.Verbose)
    ELSE IF key.Section # "T_KEY"
    THEN Parsed(ERR_EXPECT_KEY, H3, key.Verbose)
    ELSE
  Bind(CheckKey(key.Content, AES_KEY_LEN), LAMBDA Key :
    IF Key.err # ERR_NOERR
    THEN Parsed(Key.err, H3, key.Verbose)
    ELSE
  Bind(WithKey(H3, Comp, Key.Key), LAMBDA H4 :
  Bind(OneSection(Fi, key.pos, key.Verbose), LAMBDA option :
    IF option.err # ERR_NOERR
    THEN Parsed(option.err, H4, option.Verbose)
    ELSE IF option.Section = "T_COMPONENT"
    THEN Bind(PushComponent(option.Content, H4), LAMBDA push :
           ComponentRecord(Fi, option.pos, push.Pt, push.Head, option.Verbose))
    ELSE IF option.Section = "T_IV"
    THEN
  Bind(CheckKey(option.Content, AES_KEY_LEN), LAMBDA Iv :
    IF Iv.err # ERR_NOERR
    THEN Parsed(Iv.err, H4, option.Verbose)
    ELSE
  Bind([H4 EXCEPT ![Comp].Iv = Iv.Key], LAMBDA H5 :
  Bind(OneSection(Fi, option.pos, option.Verbose), LAMBDA after :
    IF after.err # ERR_NOERR
    THEN Parsed(after.err, H5, after.Verbose)
    ELSE IF after.Section # "T_COMPONENT"
    THEN Parsed(ERR_EXPECT_COMP, H5, after.Verbose)
    ELSE
  Bind(PushComponent(after.Content, H5), LAMBDA push :
    IF push.Pt = NULL
    THEN Parsed(ERR_WRONG_COMP, H5, after.Verbose)
    ELSE ComponentRecord(Fi, after.pos, push.Pt, push.Head, after.Verbose)))))
    ELSE Parsed(ERR_EXPECT_COMP_OR_IV, H4, option.Verbose)))))))))))

\* *Head is NULL and the file at its first token when ProcessComponents is
\* called
ProcessComponents(Fi, Verbose) ==
  Bind(OneSection(Fi, 1, Verbose), LAMBDA component :
    IF component.err # ERR_NOERR
    THEN Parsed(component.err, << >>, component.Verbose)
    ELSE IF component.Section # "T_COMPONENT"
    THEN Parsed(ERR_EXPECT_COMP, << >>, component.Verbose)
    ELSE
  Bind(PushComponent(component.Content, << >>), LAMBDA push :
    IF push.Pt = NULL
    THEN Parsed(ERR_WRONG_COMP, << >>, component.Verbose)
    ELSE ComponentRecord(Fi, component.pos, push.Pt, push.Head,
                         component.Verbose)))

\* ProcessEncryptionInfos after fopen when the components of a file that is
\* turned away are kept
AfterParseKeeping(E, C) ==
  IF C.killed
  THEN [E |-> [E EXCEPT !.Verbose = C.Verbose], val |-> 0, parsed |-> TRUE,
        err |-> C.err, killed |-> TRUE]
  ELSE [E |-> [E EXCEPT !.Verbose = C.Verbose, !.Components = C.Head],
        val |-> IF C.err \in {ERR_NOERR, ERR_NOERR_EOF} THEN 1 ELSE 0,
        parsed |-> TRUE, err |-> C.err, killed |-> FALSE]

\* ProcessEncryptionInfos after fopen, with what ProcessComponents returned:
\* EncryptInfo.Components is set when the file was taken
AfterParse(E, C) ==
  IF C.killed
  THEN [E |-> [E EXCEPT !.Verbose = C.Verbose], val |-> 0, parsed |-> TRUE,
        err |-> C.err, killed |-> TRUE]
  ELSE IF C.err \in {ERR_NOERR, ERR_NOERR_EOF}
  THEN [E |-> [E EXCEPT !.Verbose = C.Verbose, !.Components = C.Head],
        val |-> 1, parsed |-> TRUE, err |-> C.err, killed |-> FALSE]
  ELSE [E |-> [E EXCEPT !.Verbose = C.Verbose],
        val |-> 0, parsed |-> TRUE, err |-> C.err, killed |-> FALSE]

\* what ProcessEncryptionInfos returns: EncryptInfo, the value, whether the
\* file was parsed and the error of the parse, and whether the process was
\* killed on the way
Loaded(E, val, parsed, err) ==
  [E |-> E, val |-> val, parsed |-> parsed, err |-> err, killed |-> FALSE]

\* a test that never finds EncryptInfo loaded
AlreadyLoadedNever(E) == FALSE

\* EncryptInfo.Components is not NULL, the test a load starts with
AlreadyLoaded(E) == E.Components # << >>

\* Fi is the file fopen gives for InfoName when fopen_ok
ProcessEncryptionInfos(E, Fi, fopen_ok) ==
  IF AlreadyLoaded(E)
  THEN Loaded(E, 1, FALSE, ERR_NOERR)
  ELSE IF ~fopen_ok
  THEN Loaded(E, 0, FALSE, ERR_NOERR)
  ELSE Bind(ProcessComponents(Fi, E.Verbose), LAMBDA C : AfterParse(E, C))

\* EncryptInfo.Components is the head of the list: NULL is the list of no
\* component
ComponentNonceUpdate(E, Name, Nonce) ==
  LET Comp == ComponentLookUp(Name, E.Components)
  IN  IF Comp = NULL
      THEN [E |-> E, val |-> 0]
      ELSE [E |-> [E EXCEPT !.Components[Comp].Nonce = Nonce], val |-> 1]

SetEncryptActiveComponent(E, Name) ==
  [E EXCEPT !.OutComponent = ComponentLookUp(Name, E.Components)]


(***************************************************************************)
(* Loads                                                                   *)
(***************************************************************************)

\* keyword = "str"
Triple(tok, str) ==
  << Token(tok, << >>), Token("T_SET", << >>), Token("T_STRING", str) >>

\* 32 hexadecimal digits in small letters, and in capital letters where
\* there are letters
HexLower ==
  [k \in 1..(2 * AES_KEY_LEN) |-> HexDigits[((5 * k) % 16) + 1]]
HexUpper ==
  [k \in 1..(2 * AES_KEY_LEN) |->
     LET d == HexDigits[((3 * k + 7) % 16) + 1]
     IN  CASE d = "a" -> "A" [] d = "b" -> "B" [] d = "c" -> "C"
           [] d = "d" -> "D" [] d = "e" -> "E" [] d = "f" -> "F"
           [] OTHER -> d]

\* the strings a file gives for a Key or an Iv: the two above, one digit
\* less, one digit more, none, a letter that is no digit in the first and
\* in the second place of a pair, and the same in a string that is too short
KeyStrings ==
  << HexLower, HexUpper,
     SubSeq(HexLower, 1, 2 * AES_KEY_LEN - 1),
     Append(HexLower, "0"),
     << >>,
     [HexLower EXCEPT ![2 * AES_KEY_LEN - 1] = "g"],
     [HexUpper EXCEPT ![2] = "G"],
     [SubSeq(HexLower, 1, 2 * AES_KEY_LEN - 2) EXCEPT ![1] = "x"] >>

\* Component, Vendor, Server, User and Key of one component
Record(name, key) ==
  Triple("T_COMPONENT", name) \o Triple("T_VENDOR", << "v" >>)
    \o Triple("T_SERVER", << "s" >>) \o Triple("T_USER", << "u" >>)
    \o Triple("T_KEY", key)

\* two components with an Iv each
TwoComponents ==
  Record(<< "a" >>, HexLower) \o Triple("T_IV", HexUpper)
    \o Record(<< "b" >>, HexUpper) \o Triple("T_IV", HexLower)

\* a component declared again after the Key
AgainAfterKey == Record(<< "a" >>, HexLower) \o Record(<< "a" >>, HexUpper)

\* a component declared again after the Iv
AgainAfterIv ==
  Record(<< "a" >>, HexLower) \o Triple("T_IV", HexLower)
    \o Record(<< "a" >>, HexUpper)

\* the files with every string for the Key, and for the Iv
KeyFiles ==
  [k \in 1..(2 * Len(KeyStrings)) |->
     IF k <= Len(KeyStrings)
     THEN Record(<< "a" >>, KeyStrings[k])
     ELSE Record(<< "a" >>, HexLower)
            \o Triple("T_IV", KeyStrings[k - Len(KeyStrings)])]

\* the files with a token that is out of place: a section out of order, a
\* name that is no keyword, a section without its = and without its string,
\* and a key followed by a section that is neither Component nor Iv
MisplacedFiles ==
  << Triple("T_VENDOR", << "v" >>),
     Triple("T_COMPONENT", << "a" >>) \o Triple("T_SERVER", << "s" >>),
     Triple("T_COMPONENT", << "a" >>) \o Triple("T_VENDOR", << "v" >>)
       \o Triple("T_USER", << "u" >>),
     Triple("T_COMPONENT", << "a" >>) \o Triple("T_VENDOR", << "v" >>)
       \o Triple("T_SERVER", << "s" >>) \o Triple("T_KEY", HexLower),
     Triple("T_COMPONENT", << "a" >>) \o Triple("T_VENDOR", << "v" >>)
       \o Triple("T_SERVER", << "s" >>) \o Triple("T_USER", << "u" >>)
       \o Triple("T_IV", HexLower),
     << Token("T_NAME", << "x" >>) >> \o Triple("T_COMPONENT", << "a" >>),
     << Token("T_COMPONENT", << >>), Token("T_STRING", << "a" >>) >>,
     << Token("T_COMPONENT", << >>), Token("T_SET", << >>),
        Token("T_NAME", << "a" >>) >>,
     Record(<< "a" >>, HexLower) \o Triple("T_VENDOR", << "v" >>),
     Record(<< "a" >>, HexLower) \o Triple("T_IV", HexLower)
       \o Triple("T_IV", HexLower) >>

RECURSIVE Prefixes(_, _, _)
\* the files a file gives when it ends after its token m, and after each
\* token up to its token n
Prefixes(Fi, m, n) ==
  IF n < m THEN << >> ELSE Append(Prefixes(Fi, m, n - 1), SubSeq(Fi, 1, n))

\* the files of the model: the file of two components cut after every token,
\* the file with the component declared again after the Key cut after every
\* token of the second declaration, the same after the Iv, a file that is
\* Verbose and no more, a file that starts with Verbose, and the files above
ConfigFiles ==
  Prefixes(TwoComponents, 0, Len(TwoComponents))
    \o Prefixes(AgainAfterKey, Len(Record(<< "a" >>, HexLower)) + 1,
                Len(AgainAfterKey))
    \o Prefixes(AgainAfterIv, Len(AgainAfterIv) - Len(Record(<< "a" >>, HexLower)) + 1,
                Len(AgainAfterIv))
    \o << << Token("T_VERBOSE", << >>) >>,
          << Token("T_VERBOSE", << >>) >> \o Record(<< "b" >>, HexLower) >>
    \o KeyFiles \o MisplacedFiles

\* the name given to SetEncryptActiveComponent and ComponentNonceUpdate
ObjectNames == {<< "d", "/", "a" >>}

TheNonce == [k \in 1..AES_BLOCKLEN |-> (k * 3) % 256]

InitLoad ==
  /\ InitRegistry
  /\ bfds = << >>
  /\ test = TestIdle

\* what a call on the encryption infos leaves behind
InfosReturn(E, op, val, args, killed) ==
  /\ EncryptInfo' = E
  /\ ret' = [op |-> op, abfd |-> NULL, name |-> NullName, sec |-> NULL,
             args |-> args, val |-> val]
  /\ bfd_error' = IF killed THEN "SIGSEGV" ELSE bfd_error
  /\ UNCHANGED << section_id, bfds, sects, bfd_std_section, backend, created, wrote, test >>

\* ProcessEncryptionInfos, the record of the call holding the file, whether
\* it was parsed and the error of the parse
LoadInfos ==
  \E f \in 1..Len(ConfigFiles), fopen_ok \in BOOLEAN :
    \E r \in {ProcessEncryptionInfos(EncryptInfo, ConfigFiles[f], fopen_ok)} :
      /\ Running
      /\ InfosReturn(r.E, "ProcessEncryptionInfos", r.val,
                     << f, fopen_ok, r.parsed, r.err >>, r.killed)

NonceUpdate ==
  \E Name \in ObjectNames :
    \E r \in {ComponentNonceUpdate(EncryptInfo, Name, TheNonce)} :
      /\ Running
      /\ InfosReturn(r.E, "ComponentNonceUpdate", r.val, << Name >>, FALSE)

SetActiveComponent ==
  \E Name \in ObjectNames :
    /\ Running
    /\ InfosReturn(SetEncryptActiveComponent(EncryptInfo, Name),
                   "SetEncryptActiveComponent", NULL, << Name >>, FALSE)

NextLoad == LoadInfos \/ NonceUpdate \/ SetActiveComponent

SpecLoad == InitLoad /\ [][NextLoad]_vars


IsLoadCall(r) == r.op = "ProcessEncryptionInfos" /\ Len(r.args) = 4

\* the file of a load, whether fopen gave it, whether it was parsed, and
\* the error ProcessComponents returned
LoadFile(r) == ConfigFiles[r.args[1]]
LoadOpened(r) == r.args[2]
LoadParsed(r) == r.args[3]
LoadError(r) == r.args[4]

\* token i of the file starts a section keyword = "str" that is whole
WholeSection(Fi, i, tok) ==
  /\ i + 2 <= Len(Fi)
  /\ Fi[i].tok = tok
  /\ Fi[i + 1].tok = "T_SET"
  /\ Fi[i + 2].tok = "T_STRING"

\* the file declares a component twice
DeclaresAgain(Fi) ==
  \E i, j \in 1..Len(Fi) :
    /\ i < j
    /\ WholeSection(Fi, i, "T_COMPONENT")
    /\ WholeSection(Fi, j, "T_COMPONENT")
    /\ Fi[i + 2].str = Fi[j + 2].str

\* C22: a load that parses a file in which a component is declared again,
\* after the Key of the one before it or after its Iv, returns 0 with
\* ERR_WRONG_COMP.  (The files of the model have nothing else wrong before
\* the second declaration.)
DuplicateComponentFails ==
  (IsLoadCall(ret) /\ LoadParsed(ret) /\ DeclaresAgain(LoadFile(ret))) =>
    /\ Running
    /\ ret.val = 0
    /\ LoadError(ret) = ERR_WRONG_COMP

\* the load of a file with a component declared again after an Iv has
\* returned 0 with ERR_WRONG_COMP
DuplicateAfterIvFails ==
  /\ IsLoadCall(ret)
  /\ LoadParsed(ret)
  /\ DeclaresAgain(LoadFile(ret))
  /\ ret.val = 0
  /\ LoadError(ret) = ERR_WRONG_COMP
  /\ EncryptInfo.Components = << >>

\* the file ends after a Component section and before the Key section of
\* that component is whole
EndsInRecord(Fi) ==
  \E c \in 1..Len(Fi) :
    /\ Fi[c].tok = "T_COMPONENT"
    /\ \A k \in (c + 1)..Len(Fi) : Fi[k].tok # "T_COMPONENT"
    /\ ~\E k \in (c + 1)..Len(Fi) : WholeSection(Fi, k, "T_KEY")

\* the file is the file of two components, or what comes before one of its
\* tokens
CutOfTwoComponents(r) == r.args[1] <= Len(TwoComponents) + 1

\* C23: a load that parses the file of two well-formed components cut
\* after one of its tokens returns 0 with ERR_UNEXPECTED_EOF when the cut is
\* after the Component keyword of a component and before the end of its Key
\* section.
EndOfFileInRecord ==
  (/\ IsLoadCall(ret)
   /\ LoadParsed(ret)
   /\ CutOfTwoComponents(ret)
   /\ EndsInRecord(LoadFile(ret))) =>
    /\ ret.val = 0
    /\ LoadError(ret) = ERR_UNEXPECTED_EOF

\* a load of a file that ends in a section, between the keyword and the
\* string, has returned 0 with ERR_UNEXPECTED_EOF
EndOfFileInSection ==
  /\ IsLoadCall(ret)
  /\ LoadParsed(ret)
  /\ CutOfTwoComponents(ret)
  /\ EndsInRecord(LoadFile(ret))
  /\ LoadFile(ret)[Len(LoadFile(ret))].tok = "T_SET"
  /\ ret.val = 0
  /\ LoadError(ret) = ERR_UNEXPECTED_EOF

\* C24: a load that parses a file and returns 0 leaves
\* EncryptInfo.Components NULL, so that ComponentLookUp finds no component;
\* a load made when EncryptInfo.Components is NULL, of a file fopen gives,
\* parses the file.
FailedLoadKeepsNothing ==
  /\ [](IsLoadCall(ret) /\ ret.val = 0 =>
          /\ EncryptInfo.Components = << >>
          /\ \A Name \in ObjectNames \cup {<< "a" >>, << "b" >>} :
               ComponentLookUp(Name, EncryptInfo.Components) = NULL)
  /\ [][(/\ IsLoadCall(ret')
         /\ EncryptInfo.Components = << >>
         /\ LoadOpened(ret')) => LoadParsed(ret')]_vars

\* a load has failed for the second declaration of a component, after the
\* first component was parsed whole
FailedLoadKeepsNothingWitness ==
  /\ IsLoadCall(ret)
  /\ LoadParsed(ret)
  /\ ret.val = 0
  /\ LoadError(ret) = ERR_WRONG_COMP
  /\ Len(LoadFile(ret)) > Len(Record(<< "a" >>, HexLower))
  /\ EncryptInfo.Components = << >>

\* the component has a name, a vendor, a server, a user and a key of
\* AES_KEY_LEN bytes
WellFormedComponent(c) ==
  /\ c.Name # << >>
  /\ c.Vendor # << >>
  /\ c.Server # << >>
  /\ c.UserAuth # << >> /\ c.UserAuth # UninitPtr
  /\ Len(c.Key) = AES_KEY_LEN
  /\ \A k \in 1..Len(c.Key) : c.Key[k] \in 0..255

\* C25: every component of EncryptInfo.Components has a name, a vendor, a
\* server, a user and a key of AES_KEY_LEN bytes.
WellFormedComponents ==
  \A k \in 1..Len(EncryptInfo.Components) :
    WellFormedComponent(EncryptInfo.Components[k])

\* a load has put two components in EncryptInfo.Components, each with all
\* it needs
WellFormedComponentsWitness ==
  /\ Len(EncryptInfo.Components) = 2
  /\ \A k \in 1..2 : WellFormedComponent(EncryptInfo.Components[k])
  /\ IsLoadCall(ret)
  /\ LoadParsed(ret)
  /\ ret.val = 1

\* the hexadecimal digits, small and capital
HexChars ==
  {"0", "1", "2", "3", "4", "5", "6", "7", "8", "9",
   "a", "b", "c", "d", "e", "f", "A", "B", "C", "D", "E", "F"}

\* the load is of a file with one of the strings as Key, or as Iv
IsKeyFile(r) ==
  /\ r.args[1] > Len(ConfigFiles) - Len(MisplacedFiles) - Len(KeyFiles)
  /\ r.args[1] <= Len(ConfigFiles) - Len(MisplacedFiles)

\* the string the file of the load has as Key, or as Iv
KeyStringOf(r) == LoadFile(r)[Len(LoadFile(r))].str

\* C26: a load that parses a file with nothing wrong but, at most, the
\* string of a Key or of an Iv returns 1 exactly when the string is 2 x
\* AES_KEY_LEN hexadecimal digits, small or capital; it returns 0 with
\* ERR_BADKEYLEN for a string of another length, and 0 with ERR_KEYNONHEX
\* for a string of that length with a character that is no such digit.
KeyValidation ==
  (IsLoadCall(ret) /\ LoadParsed(ret) /\ IsKeyFile(ret)) =>
    IF Len(KeyStringOf(ret)) # 2 * AES_KEY_LEN
    THEN /\ ret.val = 0
         /\ LoadError(ret) = ERR_BADKEYLEN
         /\ EncryptInfo.Components = << >>
    ELSE IF \E k \in 1..Len(KeyStringOf(ret)) : KeyStringOf(ret)[k] \notin HexChars
    THEN /\ ret.val = 0
         /\ LoadError(ret) = ERR_KEYNONHEX
         /\ EncryptInfo.Components = << >>
    ELSE /\ ret.val = 1
         /\ Len(EncryptInfo.Components) = 1
         /\ Len(EncryptInfo.Components[1].Key) = AES_KEY_LEN

\* a file with an Iv in capital letters has been taken, and the bytes of
\* the Iv are what the digits say
KeyValidationWitness ==
  /\ IsLoadCall(ret)
  /\ LoadParsed(ret)
  /\ IsKeyFile(ret)
  /\ KeyStringOf(ret) = HexUpper
  /\ ret.val = 1
  /\ Len(EncryptInfo.Components) = 1
  /\ EncryptInfo.Components[1].Iv =
       [i \in 1..AES_KEY_LEN |->
          16 * ((3 * (2 * i - 1) + 7) % 16) + ((3 * (2 * i) + 7) % 16)]

\* C27: a load made when EncryptInfo.Components is not NULL returns 1, does
\* not parse the file it is given, whether fopen would give it or not, and
\* leaves EncryptInfo as it is: the components, the Key, Iv and Nonce of
\* each, and the active component.
LoadOnce ==
  [][(IsLoadCall(ret') /\ EncryptInfo.Components # << >>) =>
       /\ ret'.val = 1
       /\ ~LoadParsed(ret')
       /\ EncryptInfo' = EncryptInfo]_vars

\* a load of another file, one that would be turned away, after a load, a
\* nonce and the choice of the active component
LoadOnceWitness ==
  /\ IsLoadCall(ret)
  /\ LoadOpened(ret)
  /\ ~LoadParsed(ret)
  /\ ret.val = 1
  /\ LoadFile(ret) = MisplacedFiles[1]
  /\ Len(EncryptInfo.Components) = 2
  /\ EncryptInfo.Components[1].Nonce = TheNonce
  /\ EncryptInfo.OutComponent = 1


(***************************************************************************)
(* Lookups of components                                                   *)
(***************************************************************************)

\* the longest path of a lookup
MaxPath == 4

PathChars == {"a", "b", "/", "\\"}

\* the paths of MaxPath characters and less
Paths == UNION {[1..n -> PathChars] : n \in 0..MaxPath}

\* the names of the components: one character, two, a name with a directory
\* in it, and the empty name
ComponentNames == {<< "a" >>, << "b", "a" >>, << "b", "/", "a" >>, << >>}

\* the lists PushComponent makes of one and of two of the names
InitLookUp ==
  /\ section_id = FirstSectionId
  /\ bfds = << >>
  /\ sects = << >>
  /\ backend = << >>
  /\ \E n1 \in ComponentNames, n2 \in ComponentNames :
       EncryptInfo = [NoEncryptInfo EXCEPT
                        !.Components = PushComponent(n2, PushComponent(n1, << >>).Head).Head]
  /\ bfd_error = "bfd_error_no_error"
  /\ ret = NoRet
  /\ created = << >>
  /\ wrote = {}
  /\ bfd_std_section = STD_SECTIONS
  /\ test = TestIdle

\* ComponentLookUp (Name, EncryptInfo.Components)
LookUp ==
  \E Name \in Paths :
    /\ Running
    /\ InfosReturn(EncryptInfo, "ComponentLookUp",
                   ComponentLookUp(Name, EncryptInfo.Components), << Name >>, FALSE)

NextLookUp == LookUp

SpecLookUp == InitLookUp /\ [][NextLookUp]_vars

IsLookUpCall(r) == r.op = "ComponentLookUp"

\* the path of a lookup
LookUpName(r) == r.args[1]

Separators == {"/", "\\"}

\* what follows the last separator of the path, and the path when it has
\* none
TrailingSegment(path) ==
  LET seps == {k \in 1..Len(path) : path[k] \in Separators}
  IN  IF seps = {} THEN path
      ELSE SubSeq(path, (CHOOSE k \in seps : \A j \in seps : j <= k) + 1, Len(path))

\* the path is the name, or ends with a separator and the name
EndsWithName(path, name) ==
  \/ path = name
  \/ /\ Len(path) > Len(name)
     /\ path[Len(path) - Len(name)] \in Separators
     /\ \A k \in 1..Len(name) : path[Len(path) - Len(name) + k] = name[k]

\* the components a lookup of the path can return
Hits(path) ==
  {k \in 1..Len(EncryptInfo.Components) :
     EndsWithName(path, EncryptInfo.Components[k].Name)}

\* C28: a lookup returns the first component of the list whose name is the
\* path, or is what follows a separator of the path, and NULL when there is
\* none; for a name without a separator in it that is: the name is the
\* trailing segment of the path.  Neither the depth of the path nor a name
\* that ends the trailing segment without being all of it makes a match.
ComponentLookUpMatches ==
  IsLookUpCall(ret) =>
    /\ IF Hits(LookUpName(ret)) = {}
       THEN ret.val = NULL
       ELSE /\ ret.val \in Hits(LookUpName(ret))
            /\ \A k \in Hits(LookUpName(ret)) : ret.val <= k
    /\ \A k \in 1..Len(EncryptInfo.Components) :
         (\A j \in 1..Len(EncryptInfo.Components[k].Name) :
            EncryptInfo.Components[k].Name[j] \notin Separators) =>
           ((k \in Hits(LookUpName(ret)))
              = (TrailingSegment(LookUpName(ret)) = EncryptInfo.Components[k].Name))

\* a lookup of a path with two directories has found the component that is
\* second in the list, and the name of the first ends the path
ComponentLookUpMatchesWitness ==
  /\ IsLookUpCall(ret)
  /\ ret.val = 2
  /\ Len(LookUpName(ret)) = MaxPath
  /\ EncryptInfo.Components[1].Name = << "a" >>
  /\ EncryptInfo.Components[2].Name = << "b", "a" >>
  /\ TrailingSegment(LookUpName(ret)) = << "b", "a" >>

\* a lookup returns a component exactly when the name of a component is the
\* trailing segment of the path, and the component it returns has that name
TrailingSegmentOnly ==
  IsLookUpCall(ret) =>
    /\ (ret.val # NULL) =
         (\E k \in 1..Len(EncryptInfo.Components) :
            EncryptInfo.Components[k].Name = TrailingSegment(LookUpName(ret)))
    /\ ret.val # NULL =>
         EncryptInfo.Components[ret.val].Name = TrailingSegment(LookUpName(ret))


(***************************************************************************)
(* The Iv of the output component                                          *)
(***************************************************************************)

\* a value for the case of no output and no input that makes it the case
\* of no output and an encrypted input never
NoOutputAlwaysFine(EncryptedIn) == 3

\* the value SetOutComponentIV returns when the output is no component
NoOutput(EncryptedIn) == IF EncryptedIn THEN 2 ELSE 3

RECURSIVE InputIvs(_, _, _, _, _)
\* the loop of SetOutComponentIV from component Pt on: whether a component
\* without Iv was met, IvOut and EncryptedIn
InputIvs(Components, OutComp, Pt, IvOut, EncryptedIn) ==
  IF Pt > Len(Components)
  THEN [missing |-> FALSE, IvOut |-> IvOut, EncryptedIn |-> EncryptedIn]
  ELSE IF Pt = OutComp
  THEN InputIvs(Components, OutComp, Pt + 1, IvOut, EncryptedIn)
  ELSE IF Components[Pt].Iv = << >>
  THEN [missing |-> TRUE, IvOut |-> IvOut, EncryptedIn |-> EncryptedIn]
  ELSE InputIvs(Components, OutComp, Pt + 1,
                IF EncryptedIn
                THEN [i \in 1..AES_KEY_LEN |-> XorStream(IvOut[i], Components[Pt].Iv[i])]
                ELSE Components[Pt].Iv,
                TRUE)

\* IvOut is an array of the stack that is not initialised: its bytes are
\* what the stack holds, the argument IvOut, until the first input is copied
\* in it
SetOutComponentIV(E, Name, IvOut) ==
  IF E.Components = << >>
  THEN [E |-> E, val |-> 0]
  ELSE Bind(ComponentLookUp(Name, E.Components), LAMBDA OutComp :
       Bind(InputIvs(E.Components, OutComp, 1, IvOut, FALSE), LAMBDA in :
         IF in.missing
         THEN [E |-> E, val |-> 4]
         ELSE IF OutComp # NULL
         THEN [E |-> [E EXCEPT !.Components[OutComp].Iv =
                                 SubSeq(in.IvOut, 1, AES_KEY_LEN)],
               val |-> 1]
         ELSE [E |-> E, val |-> NoOutput(in.EncryptedIn)]))

\* the strings of the Ivs of the files, none standing for no Iv section
IvStrings == {<< >>, HexLower, HexUpper}

RECURSIVE Flatten(_)
\* the sequences of a sequence, one after the other
Flatten(seqs) ==
  IF seqs = << >> THEN << >> ELSE Head(seqs) \o Flatten(Tail(seqs))

\* the names of the components of the files
RecordNames == << << "a" >>, << "b" >>, << "c" >> >>

\* the file of the first n of the components, with the Ivs
FileOf(n, ivs) ==
  Flatten([k \in 1..n |->
             Record(RecordNames[k], HexLower)
               \o IF ivs[k] = << >> THEN << >> ELSE Triple("T_IV", ivs[k])])

\* EncryptInfo after the load of a file of one, two or three components,
\* and before any load
InitAggregate ==
  /\ section_id = FirstSectionId
  /\ bfds = << >>
  /\ sects = << >>
  /\ backend = << >>
  /\ \E n \in 0..Len(RecordNames) :
       \E ivs \in [1..n -> IvStrings] :
         EncryptInfo = ProcessEncryptionInfos(NoEncryptInfo, FileOf(n, ivs), TRUE).E
  /\ bfd_error = "bfd_error_no_error"
  /\ ret = NoRet
  /\ created = << >>
  /\ wrote = {}
  /\ bfd_std_section = STD_SECTIONS
  /\ test = TestIdle

\* the names of the outputs: the components, in a directory or not, and a
\* file that is no component
OutputNames == {<< "o", "/", "a" >>, << "b" >>, << "c" >>, << "o" >>}

\* what the stack may hold where IvOut is
StackBytes ==
  {[i \in 1..AES_KEY_LEN |-> 0], [i \in 1..AES_KEY_LEN |-> (37 * i) % 256]}

SetOutIV ==
  \E Name \in OutputNames, IvOut \in StackBytes :
    \E r \in {SetOutComponentIV(EncryptInfo, Name, IvOut)} :
      /\ Running
      /\ InfosReturn(r.E, "SetOutComponentIV", r.val, << Name >>, FALSE)

NextAggregate == SetOutIV \/ NonceUpdate

SpecAggregate == InitAggregate /\ [][NextAggregate]_vars


IsOutIvCall(r) == r.op = "SetOutComponentIV"

\* the component that is the output of the call, NULL when there is none
OutOf(r) ==
  IF Hits(r.args[1]) = {} THEN NULL
  ELSE CHOOSE k \in Hits(r.args[1]) : \A j \in Hits(r.args[1]) : k <= j

\* the components that are not the output of the call
InputsOf(r) == {k \in 1..Len(EncryptInfo.Components) : k # OutOf(r)}

RECURSIVE XorOfIvs(_, _)
\* byte i of the xor of the Ivs of the components ks, 0 for no component
XorOfIvs(ks, i) ==
  IF ks = {} THEN 0
  ELSE LET k == CHOOSE x \in ks : TRUE
       IN  Xor(EncryptInfo.Components[k].Iv[i], XorOfIvs(ks \ {k}, i))

\* C29: a call of SetOutComponentIV with the name of a component, made when
\* every other component has an Iv, returns 1 and leaves as Iv of that
\* component the xor of the Ivs of the other components, its own Iv left
\* out, and every other field of EncryptInfo as it was.
AggregatedIv ==
  [][(/\ IsOutIvCall(ret')
      /\ OutOf(ret') # NULL
      /\ \A k \in InputsOf(ret') : EncryptInfo.Components[k].Iv # << >>) =>
       /\ ret'.val = 1
       /\ EncryptInfo' =
            [EncryptInfo EXCEPT !.Components[OutOf(ret')].Iv =
               [i \in 1..AES_KEY_LEN |-> XorOfIvs(InputsOf(ret'), i)]]]_vars

\* the second of three components has been given the xor of the Ivs of the
\* first and of the third, which are not the same
AggregatedIvWitness ==
  /\ IsOutIvCall(ret)
  /\ ret.val = 1
  /\ ret.args[1] = << "b" >>
  /\ Len(EncryptInfo.Components) = 3
  /\ EncryptInfo.Components[1].Iv # EncryptInfo.Components[3].Iv
  /\ EncryptInfo.Components[1].Iv # << >>
  /\ EncryptInfo.Components[3].Iv # << >>
  /\ EncryptInfo.Components[2].Iv =
       [i \in 1..AES_KEY_LEN |->
          Xor(EncryptInfo.Components[1].Iv[i], EncryptInfo.Components[3].Iv[i])]

\* C30: a call of SetOutComponentIV made when EncryptInfo has components
\* returns 4 when a component that is not the output has no Iv, and 2 when
\* every component has an Iv and none is the output; so it returns neither
\* 0, 1 nor 3 when no component is the output; it returns 0 when EncryptInfo
\* has no component; a call that does not return 1 leaves EncryptInfo as it
\* was.
AggregationFailures ==
  [][IsOutIvCall(ret') =>
       /\ (/\ EncryptInfo.Components # << >>
           /\ \E k \in InputsOf(ret') : EncryptInfo.Components[k].Iv = << >>) =>
            ret'.val = 4
       /\ (/\ EncryptInfo.Components # << >>
           /\ OutOf(ret') = NULL
           /\ \A k \in InputsOf(ret') : EncryptInfo.Components[k].Iv # << >>) =>
            ret'.val = 2
       /\ (EncryptInfo.Components # << >> /\ OutOf(ret') = NULL) =>
            ret'.val \in {2, 4}
       /\ EncryptInfo.Components = << >> => ret'.val = 0
       /\ ret'.val # 1 => EncryptInfo' = EncryptInfo]_vars

\* a call for an output that is no component has returned 2 with three
\* components that have an Iv each
AggregationFailuresWitness ==
  /\ IsOutIvCall(ret)
  /\ ret.val = 2
  /\ ret.args[1] = << "o" >>
  /\ Len(EncryptInfo.Components) = 3
  /\ \A k \in 1..3 : EncryptInfo.Components[k].Iv # << >>

(***************************************************************************)
(* Unique section names                                                    *)
(***************************************************************************)

\* the last suffix bfd_get_unique_section_name tries
MaxSuffix == 999999

\* sprintf (sname + len, ".%d", num) behind the copy of templat
SuffixedName(templat, num) == templat \o "." \o ToString(num)

TooManySectionsNever(num) == FALSE

\* if (num > 999999) abort ()
TooManySections(num) == num > MaxSuffix

\* the do-while loop: the first suffix from num on whose name the hash table
\* of abfd does not hold, and the value of num when the loop ends
RECURSIVE UniqueNameLoop(_, _, _, _)
UniqueNameLoop(R, abfd, templat, num) ==
  IF TooManySections(num)
  THEN [aborted |-> TRUE, sname |-> NullName, num |-> num]
  ELSE IF bfd_hash_lookup(R, abfd, SuffixedName(templat, num)) # NULL
       THEN UniqueNameLoop(R, abfd, templat, num + 1)
       ELSE [aborted |-> FALSE, sname |-> SuffixedName(templat, num),
             num |-> num + 1]

\* bfd_get_unique_section_name (bfd_malloc gives the memory of the name).
\* count is << >> for a NULL pointer and << n >> for a pointer to n; the
\* value is the name and what count points to when the call returns.
bfd_get_unique_section_name(R, abfd, templat, count) ==
  LET l == UniqueNameLoop(R, abfd, templat,
                          IF count = << >> THEN 1 ELSE count[1])
  IN  [R   |-> R,
       val |-> [sname |-> l.sname,
                count |-> IF count = << >> \/ l.aborted THEN count
                          ELSE << l.num >>],
       err |-> IF l.aborted THEN "SIGABRT" ELSE "unchanged"]

\* the template and the counters a client passes: no counter, the first
\* suffixes and the suffixes around the last one
Templates == {"a"}

Suffixes == {1, 2, MaxSuffix - 1, MaxSuffix, MaxSuffix + 1}

Counters == {<< >>} \cup {<< n >> : n \in {0} \cup Suffixes}

\* the names a client gives its sections: names the call invents
InventedNames == {SuffixedName(t, n) : t \in Templates, n \in Suffixes}

GetUniqueSectionName ==
  \E abfd \in BFDs, templat \in Templates, count \in Counters :
    /\ Running
    /\ Returns(bfd_get_unique_section_name(Reg, abfd, templat, count), backend,
            "bfd_get_unique_section_name", abfd, templat, NULL, count)

NextUnique ==
  \/ GetUniqueSectionName
  \/ MakeSectionAnyway(InventedNames)
  \/ MakeSection(InventedNames)

SpecUnique == Init /\ [][NextUnique]_vars

IsUniqueNameCall == ret.op = "bfd_get_unique_section_name"

\* the hash table of abfd holds an entry under this name
NameTaken(abfd, name) ==
  \E s \in 1..Len(sects) :
    /\ InHashTable(Reg, abfd, s)
    /\ sects[s].root.string = name

FirstSuffix == IF ret.args = << >> THEN 1 ELSE ret.args[1]

\* the suffixes from the first one on that the call may return: with at most
\* Len(sects) names taken, the smallest is among the first Len(sects) + 1
FreeSuffixes ==
  {n \in FirstSuffix..(FirstSuffix + Len(sects)) :
     n <= MaxSuffix /\ ~NameTaken(ret.abfd, SuffixedName(ret.name, n))}

SmallestFree == CHOOSE n \in FreeSuffixes : \A k \in FreeSuffixes : n <= k

\* C31: bfd_get_unique_section_name ends, and when it does it has either
\* returned template.N for the smallest N from the starting counter (1 without
\* a counter) on that the hash table of the owner has no entry for, with N + 1
\* stored in the counter, or aborted because the suffix to try is above
\* 999999; the name it returns is the name of no entry.
UniqueName ==
  IsUniqueNameCall =>
    IF FreeSuffixes = {}
    THEN bfd_error = "SIGABRT"
    ELSE /\ bfd_error # "SIGABRT"
         /\ ret.val.sname = SuffixedName(ret.name, SmallestFree)
         /\ ~NameTaken(ret.abfd, ret.val.sname)
         /\ ret.val.count = IF ret.args = << >> THEN << >>
                            ELSE << SmallestFree + 1 >>

\* a call that starts at a taken name and goes on to the next one
UniqueNameWitness ==
  /\ IsUniqueNameCall
  /\ bfd_error # "SIGABRT"
  /\ ret.args # << >>
  /\ NameTaken(ret.abfd, SuffixedName(ret.name, FirstSuffix))
  /\ ret.val.count = << FirstSuffix + 2 >>

(***************************************************************************)
(* Pseudo-sections                                                         *)
(***************************************************************************)

PseudoPtrs ==
  {bfd_com_section_ptr, bfd_und_section_ptr, bfd_abs_section_ptr,
   bfd_ind_section_ptr}

PseudoNamed(name) ==
  CHOOSE p \in PseudoPtrs : bfd_std_section[-p].name = name

\* no list of a bfd, and no link of a section, leads to a pseudo-section
PseudoSectionsUnlinked ==
  /\ \A abfd \in BFDs : /\ bfds[abfd].sections \notin PseudoPtrs
                        /\ bfds[abfd].section_last \notin PseudoPtrs
  /\ \A s \in 1..Len(sects) : /\ sects[s].section.next \notin PseudoPtrs
                              /\ sects[s].section.prev \notin PseudoPtrs

\* a creation by the name of a pseudo-section in a bfd whose output has not
\* begun
CreatesPseudo(r, op) ==
  /\ r.op = op
  /\ r.name \in {STD_SECTIONS[k].name : k \in 1..Len(STD_SECTIONS)}
  /\ ~bfds[r.abfd].output_has_begun

\* C32: no pseudo-section (*ABS*, *UND*, *COM*, *IND*) is ever linked into
\* the list of a bfd and none of their fields ever changes;
\* bfd_make_section_old_way by the name of a pseudo-section returns that
\* pseudo-section and leaves the list, section_count and the id counter as
\* they were, and bfd_make_section_with_flags and bfd_make_section return
\* NULL for these names.
PseudoSections ==
  /\ [](PseudoSectionsUnlinked /\ bfd_std_section = STD_SECTIONS)
  /\ [][ /\ CreatesPseudo(ret', "bfd_make_section_old_way") =>
              /\ ret'.val = PseudoNamed(ret'.name)
              /\ UNCHANGED << section_id, bfds, sects >>
         /\ (\/ CreatesPseudo(ret', "bfd_make_section_with_flags")
             \/ CreatesPseudo(ret', "bfd_make_section")) =>
              /\ ret'.val = NULL
              /\ UNCHANGED << section_id, bfds, sects, bfd_std_section >>
       ]_vars

\* bfd_make_section_old_way has returned *ABS*, whose symbol is no longer
\* the one of global_syms
PseudoSectionsWitness ==
  /\ ret.op = "bfd_make_section_old_way"
  /\ ret.name = BFD_ABS_SECTION_NAME
  /\ ret.val = bfd_abs_section_ptr
  /\ bfd_std_section[-bfd_abs_section_ptr].symbol = EmptySymbol
  /\ PseudoSectionsUnlinked

(***************************************************************************)
(* The keystream by position                                               *)
(***************************************************************************)

\* the 128-bit big-endian integer of the bytes of block plus k, mod 2^128,
\* as bytes: the sum byte by byte from the last one, with the carry
RECURSIVE BigEndianAdd(_, _, _)
BigEndianAdd(block, pos, k) ==
  IF pos = 0 THEN block
  ELSE BigEndianAdd([block EXCEPT ![pos] = (block[pos] + k) % 256],
                    pos - 1, (block[pos] + k) \div 256)

\* StoredIv XOR Nonce
EffectiveIv(Iv, Nonce) == [k \in 1..AES_BLOCKLEN |-> Xor(Iv[k], Nonce[k])]

\* AES_K (C) for the block of the stream that holds byte number pos
KeystreamBlock(Key, Iv, Nonce, pos) ==
  AES_Cipher(BigEndianAdd(EffectiveIv(Iv, Nonce), AES_BLOCKLEN,
                          pos \div AES_BLOCKLEN),
             AES_KeyExpansion(Key))

\* the blocks of the stream that hold the bytes from .. to - 1
BlocksOf(from, to) ==
  {b \in 0..(to \div AES_BLOCKLEN) :
     \E i \in from..(to - 1) : i \div AES_BLOCKLEN = b}

\* C33: a cipher call at offset O and length L gives, for every i below L,
\* the input byte i xor byte (O + i) mod 16 of AES_K (C), where C is the
\* 128-bit big-endian integer (Iv xor Nonce) + (O + i) div 16 mod 2^128: the
\* counter advances once per block of 16 bytes, the carry goes from the last
\* byte to the first and all 0xff wraps to all zero.
PositionalKeystream ==
  test.pc \in {"part", "back"} =>
    /\ Len(test.In) = Len(test.Input)
    /\ \A b \in BlocksOf(test.From, Len(test.Input)) :
         \A ks \in {KeystreamBlock(test.Key, test.Iv, test.Nonce,
                                   b * AES_BLOCKLEN)} :
           \A i \in test.From..(Len(test.Input) - 1) :
             i \div AES_BLOCKLEN = b =>
               test.In[i + 1] = Xor(test.Input[i + 1], ks[(i % AES_BLOCKLEN) + 1])

\* a call off a block boundary that goes through the block whose counter is
\* the wrap of all 0xff to zero and into the next one
PositionalKeystreamWitness ==
  /\ test.pc = "part"
  /\ test.From % AES_BLOCKLEN # 0
  /\ test.From < AES_BLOCKLEN
  /\ Len(test.Input) > 2 * AES_BLOCKLEN
  /\ EffectiveIv(test.Iv, test.Nonce) = [k \in 1..AES_BLOCKLEN |-> 255]
  /\ BigEndianAdd(EffectiveIv(test.Iv, test.Nonce), AES_BLOCKLEN, 2)
       = [k \in 1..AES_BLOCKLEN |-> IF k = AES_BLOCKLEN THEN 1 ELSE 0]

(***************************************************************************)
(* A write and the read that follows it                                    *)
(***************************************************************************)

\* the flags of the section that is written and read back
BridgeFlagChoices ==
  {{"SEC_HAS_CONTENTS", "SEC_CODE"}, {"SEC_HAS_CONTENTS"},
   {"SEC_HAS_CONTENTS", "SEC_CODE", "SEC_IN_MEMORY"},
   {"SEC_HAS_CONTENTS", "SEC_CODE", "SEC_CONSTRUCTOR"}}

\* (offset, count): nothing, a range across the end of the first block, a
\* range of the second block that ends where the section ends
BridgeRanges ==
  {<< 0, 0 >>, << AES_BLOCKLEN - 1, 3 >>, << ReadSize - 3, 3 >>}

\* one bfd opened for writing or for both, with one section that has the
\* bytes FileBytes in the file
InitBridge ==
  /\ \E direction \in {"write_direction", "both_direction"},
        bflags \in {{}, {"BFD_ENCRYPTED"}},
        sflags \in BridgeFlagChoices,
        rawsize \in {0, ReadSize - 2},
        contents \in {<< >>, CacheBytes} :
       /\ section_id = ReadSetup(direction, bflags, sflags, rawsize, contents).section_id
       /\ bfds = ReadSetup(direction, bflags, sflags, rawsize, contents).bfds
       /\ sects = ReadSetup(direction, bflags, sflags, rawsize, contents).sects
  /\ backend = << FileBytes >>
  /\ EncryptInfo = [Components |-> << OneComponent >>, Verbose |-> FALSE,
                       OutComponent |-> NULL]
  /\ bfd_error = "bfd_error_no_error"
  /\ ret = NoRet
  /\ created = << 1 >>
  /\ wrote = {}
  /\ bfd_std_section = STD_SECTIONS
  /\ test = TestIdle

ReadBack(ranges) ==
  \E abfd \in BFDs, range \in ranges, backend_ok \in BOOLEAN :
    \E sec \in SectionsOf(abfd) :
      \E r \in {bfd_get_section_contents(Reg, backend, EncryptInfo, abfd, sec,
                                         DestBytes, range[1], range[2],
                                         backend_ok)} :
        /\ Running
        /\ Returns(r, backend, "bfd_get_section_contents", abfd,
                   sects[sec].section.name, sec,
                   << range[1], range[2], r.err, DestBytes, r.loc, r.got >>)

NextBridge ==
  \/ WriteContents(BridgeRanges)
  \/ ReadBack(BridgeRanges)

SpecBridge == InitBridge /\ [][NextBridge]_vars

\* r is a write that returned TRUE and q a read of the same range of the same
\* section that returned TRUE
ReadsBack(r, q) ==
  /\ IsWriteCall(r) /\ r.val = 1
  /\ IsReadCall(q) /\ q.val = 1
  /\ q.abfd = r.abfd /\ q.sec = r.sec
  /\ CallOffset(q) = CallOffset(r) /\ CallCount(q) = CallCount(r)

\* the bytes the caller of the read has got
BytesRead(q) == SubSeq(CallBufferAfter(q), 1, CallCount(q))

\* the write has sent to the target other bytes than the caller's
EncryptedOnWrite(r) == CallSent(r) # << CallBuffer(r) >>

\* the read has given the caller other bytes than the target's
DecryptedOnRead(q) == CallGot(q) # << >> /\ CallGot(q)[1].buf # BytesRead(q)

\* C34: for a section without SEC_CONSTRUCTOR, a bfd_set_section_contents
\* that returns TRUE followed by a bfd_get_section_contents of the same range
\* that returns TRUE gives the caller the bytes written, whether they come
\* from the target (decrypted) or from section->contents; the read that goes
\* to the target applies the cipher exactly when the write did.
BridgeRoundTrip ==
  [][ (ReadsBack(ret, ret') /\ ~HasFlag(ret.sec, "SEC_CONSTRUCTOR")) =>
        /\ BytesRead(ret') = CallBuffer(ret)
        /\ CallGot(ret') # << >> =>
             (DecryptedOnRead(ret') <=> EncryptedOnWrite(ret))
    ]_vars

\* bytes across a block boundary written encrypted and read back from the
\* target
BridgeRoundTripWitness ==
  /\ IsReadCall(ret) /\ ret.val = 1
  /\ CallOffset(ret) = AES_BLOCKLEN - 1
  /\ CallCount(ret) = 3
  /\ BytesRead(ret) = WriteData(3)
  /\ DecryptedOnRead(ret)
  /\ SubSeq(backend[ret.sec], AES_BLOCKLEN, AES_BLOCKLEN + 2) # WriteData(3)

(***************************************************************************)
(* The cipher and the encryption infos                                     *)
(***************************************************************************)

\* an encrypted bfd of the component "a", opened for reading and writing,
\* with a code section of ReadSize bytes whose contents are kept in memory
EncryptedSetup ==
  LET R0 == [section_id |-> FirstSectionId, std_section |-> STD_SECTIONS,
             bfds |-> << NewBfd(<< "o", "/", "a" >>, {"BFD_ENCRYPTED"},
                                "both_direction") >>,
             sects |-> << >>]
      c1 == bfd_make_section_with_flags(R0, 1, "a",
                                        {"SEC_HAS_CONTENTS", "SEC_CODE"}, TRUE)
      s1 == bfd_set_section_size(c1.R, 1, c1.val, ReadSize)
  IN  [s1.R EXCEPT !.sects[c1.val].section.contents = [k \in 1..ReadSize |-> 0]]

\* the Ivs of the files that are loaded: one component without Iv, and two
\* components with an Iv each, not the same
LoadedIvs == {<< << >> >>, << HexLower, HexUpper >>}

\* the bfd, its file of zeros, and EncryptInfo after the load of one of the
\* files
InitEncrypted ==
  /\ section_id = EncryptedSetup.section_id
  /\ bfds = EncryptedSetup.bfds
  /\ sects = EncryptedSetup.sects
  /\ backend = << [k \in 1..ReadSize |-> 0] >>
  /\ \E ivs \in LoadedIvs :
       EncryptInfo =
         ProcessEncryptionInfos(NoEncryptInfo, FileOf(Len(ivs), ivs), TRUE).E
  /\ bfd_error = "bfd_error_no_error"
  /\ ret = NoRet
  /\ created = << 1 >>
  /\ wrote = {}
  /\ bfd_std_section = STD_SECTIONS
  /\ test = TestIdle

\* (offset, count): a range across the end of the first block and the range
\* of the second block that follows it
EncryptedRanges == {<< AES_BLOCKLEN - 1, 3 >>, << AES_BLOCKLEN + 2, 2 >>}

NextEncrypted ==
  \/ NonceUpdate
  \/ SetOutIV
  \/ WriteContents(EncryptedRanges)
  \/ ReadBack({<< AES_BLOCKLEN - 1, 3 >>})

SpecEncrypted == InitEncrypted /\ [][NextEncrypted]_vars

\* the component the cipher is applied for in the call r, NULL when the
\* section is no code section, the bfd is not encrypted or no component
\* matches the file name
CipherComponent(r) ==
  IF /\ HasFlag(r.sec, "SEC_CODE")
     /\ "BFD_ENCRYPTED" \in bfds[r.abfd].flags
  THEN ComponentLookUp(bfds[r.abfd].filename, EncryptInfo.Components)
  ELSE NULL

\* the call r is a write or a read that has got as far as the cipher
DrivesCipher(r) ==
  /\ IsWriteCall(r) \/ IsReadCall(r)
  /\ CipherComponent(r) # NULL
  /\ \/ CallError(r) = "SIGSEGV"
     \/ IsWriteCall(r) /\ CallSent(r) # << >>
     \/ IsReadCall(r) /\ CallGot(r) # << >>

Populated(Comp) == Comp.Key # << >> /\ Comp.Iv # << >> /\ Comp.Nonce # << >>

\* C35: whenever bfd_set_section_contents or bfd_get_section_contents
\* applies the cipher for a component, after whatever loads, nonce updates
\* and settings of the output Iv, the component has a Key, an Iv and a Nonce.
CipherPreconditions ==
  [][ DrivesCipher(ret') =>
        Populated(EncryptInfo.Components[CipherComponent(ret')]) ]_vars

\* a write that has reached the cipher with a component that was loaded with
\* Key and Iv and has no Nonce: the process has ended
CipherPreconditionsWitness ==
  /\ IsWriteCall(ret)
  /\ CallError(ret) = "SIGSEGV"
  /\ bfd_error = "SIGSEGV"
  /\ CipherComponent(ret) # NULL
  /\ EncryptInfo.Components[CipherComponent(ret)].Key # << >>
  /\ EncryptInfo.Components[CipherComponent(ret)].Iv # << >>
  /\ EncryptInfo.Components[CipherComponent(ret)].Nonce = << >>

\* the bytes of the section that a write has put in the file, which held
\* zeros (a byte that is 0 once encrypted is not told from these)
Stored(sec) ==
  {k \in 1..sects[sec].section.size : backend[sec][k] # 0}

\* the bytes at these places of the section in the file are the bytes of
\* section->contents encrypted with the Key of Comp and the effective Iv
\* (Iv xor Nonce) of Comp
StoredUnder(Comp, sec, places) ==
  \A b \in {(k - 1) \div AES_BLOCKLEN : k \in places} :
    \A ks \in {KeystreamBlock(Comp.Key, Comp.Iv, Comp.Nonce, b * AES_BLOCKLEN)} :
      \A k \in places :
        (k - 1) \div AES_BLOCKLEN = b =>
          backend[sec][k] = Xor(sects[sec].section.contents[k],
                                ks[((k - 1) % AES_BLOCKLEN) + 1])

\* C36: in any interleaving of bfd_set_section_contents on an encrypted bfd
\* with ComponentNonceUpdate and SetOutComponentIV, every range of a section
\* that reaches the target is encrypted with the same Key and the same
\* effective Iv: when a write encrypts a range, the bytes of the section
\* already in the file are bytes encrypted with the Key and the effective Iv
\* this write uses.
SingleEffectiveIv ==
  [][ (/\ IsWriteCall(ret') /\ ret'.val = 1
       /\ CipherComponent(ret') # NULL) =>
        StoredUnder(EncryptInfo.Components[CipherComponent(ret')], ret'.sec,
                    Stored(ret'.sec))
    ]_vars

\* two ranges of the section in the file: the first encrypted with the Iv
\* the component was loaded with, the second, written after
\* SetOutComponentIV, with the Iv of the other component
SingleEffectiveIvWitness ==
  /\ IsWriteCall(ret) /\ ret.val = 1
  /\ CallOffset(ret) = AES_BLOCKLEN + 2
  /\ CipherComponent(ret) = 1
  /\ Len(EncryptInfo.Components) = 2
  /\ EncryptInfo.Components[1].Iv = EncryptInfo.Components[2].Iv
  /\ Stored(ret.sec) = AES_BLOCKLEN..(AES_BLOCKLEN + 4)
  /\ StoredUnder(EncryptInfo.Components[1], ret.sec,
                 (AES_BLOCKLEN + 3)..(AES_BLOCKLEN + 4))
  /\ StoredUnder([EncryptInfo.Components[1] EXCEPT
                    !.Iv = CheckKey(HexLower, AES_KEY_LEN).Key],
                 ret.sec, AES_BLOCKLEN..(AES_BLOCKLEN + 2))
  /\ ~StoredUnder(EncryptInfo.Components[1], ret.sec, Stored(ret.sec))

(***************************************************************************)
(* A creation whose hook fails                                             *)
(***************************************************************************)

\* the creation r, of a section under a name the bfd did not have, in a bfd
\* whose output has not begun, has returned NULL: its new_section_hook has
\* returned FALSE
HookFailed(r) ==
  /\ r.op \in CreateOps
  /\ r.val = NULL
  /\ ~bfds[r.abfd].output_has_begun
  /\ r.name \notin PseudoSectionNames
  /\ bfd_get_section_by_name(Reg, r.abfd, r.name) = NULL

\* C37: a creation, of whatever variant, whose new_section_hook fails
\* returns NULL and leaves section_count, the list, the id counter and the
\* lookup by name as they were: bfd_get_section_by_name for the name, which
\* did not exist, still returns NULL.
HookFailure ==
  [][ HookFailed(ret') =>
        /\ section_id' = section_id
        /\ bfds'[ret'.abfd].section_count = bfds[ret'.abfd].section_count
        /\ SectionList(Reg', ret'.abfd) = SectionList(Reg, ret'.abfd)
        /\ \A name \in SectionNames :
             bfd_get_section_by_name(Reg', ret'.abfd, name)
               = bfd_get_section_by_name(Reg, ret'.abfd, name)
    ]_vars

\* after a creation that failed, the lookup by its name returns a section
\* that is in no list
HookFailureWitness ==
  /\ ret.op \in CreateOps
  /\ ret.val = NULL
  /\ ret.name \notin PseudoSectionNames
  /\ Len(sects) = 1
  /\ created = << >>
  /\ bfd_get_section_by_name(Reg, ret.abfd, ret.name) = 1
  /\ sects[1].section.name = ret.name
  /\ SectionList(Reg, ret.abfd) = << >>
  /\ bfds[ret.abfd].section_count = 0
  /\ section_id = FirstSectionId

(***************************************************************************)
(* The Iv of the output from one call to the next                          *)
(***************************************************************************)

\* C38: the Iv SetOutComponentIV stores in the output component is
\* determined by the Ivs of the other components alone, also when there is
\* no other component: a call that returns 1, made again with the same name
\* (the first call has changed nothing but the Iv of the output), stores the
\* same Iv again and so leaves EncryptInfo as it is.
AggregationDeterminism ==
  [][ (/\ IsOutIvCall(ret) /\ ret.val = 1
       /\ IsOutIvCall(ret') /\ ret'.val = 1
       /\ ret'.args = ret.args) =>
        EncryptInfo'.Components[OutOf(ret')].Iv
          = EncryptInfo.Components[OutOf(ret')].Iv
    ]_vars

\* the only component, as output, has as Iv the bytes the stack held
AggregationDeterminismWitness ==
  /\ IsOutIvCall(ret)
  /\ ret.val = 1
  /\ Len(EncryptInfo.Components) = 1
  /\ InputsOf(ret) = {}
  /\ EncryptInfo.Components[1].Iv \in StackBytes
  /\ \E i \in 1..AES_KEY_LEN : EncryptInfo.Components[1].Iv[i] # 0

(***************************************************************************)
(* The order of the sections of one name                                   *)
(***************************************************************************)

NewestFirst(seq) == [k \in 1..Len(seq) |-> seq[Len(seq) + 1 - k]]

\* the oldest, then the others from the newest to the second oldest
OldestThenNewestFirst(seq) ==
  IF seq = << >> THEN << >> ELSE << seq[1] >> \o NewestFirst(Tail(seq))

\* C39: the walk that starts at bfd_get_section_by_name and goes on with
\* bfd_get_next_section_by_name lists the sections created in a bfd under a
\* name from the newest to the oldest.  Stated for the states in which every
\* creation so far has succeeded.
EnumerationOrder ==
  Len(created) = Len(sects) =>
    \A abfd \in BFDs, name \in SectionNames :
      VisitedByName(abfd, name) = NewestFirst(CreatedAs(abfd, name))

\* the walk over three sections of one name came to its end, having gone
\* from the oldest to the newest and then to the one between them
EnumerationOrderWitness ==
  /\ ret.op = "bfd_get_next_section_by_name"
  /\ ret.val = NULL
  /\ Len(created) = Len(sects)
  /\ Len(CreatedAs(ret.abfd, ret.name)) = 3
  /\ VisitedByName(ret.abfd, ret.name)
       = OldestThenNewestFirst(CreatedAs(ret.abfd, ret.name))
  /\ ret.sec = CreatedAs(ret.abfd, ret.name)[2]

(***************************************************************************)
(* bfd_section_removed_from_list                                           *)
(***************************************************************************)

bfd_section_removed_from_list(R, abfd, s) ==
  IF R.sects[s].section.next = NULL
  THEN R.bfds[abfd].section_last # s
  ELSE R.sects[R.sects[s].section.next].section.prev # s

\* the list macros and bfd_section_list_clear
NextMembership ==
  \/ NextList
  \/ SectionListClear

SpecMembership == InitList /\ [][NextMembership]_vars

\* C40: after the list macros and bfd_section_list_clear,
\* bfd_section_removed_from_list (abfd, s) is true exactly when s is not
\* reached from the head of the list of abfd.
MembershipPredicate ==
  \A abfd \in BFDs :
    \A s \in SectionsOf(abfd) :
      bfd_section_removed_from_list(Reg, abfd, s) <=> s \notin InList(Reg, abfd)

\* a list of several sections cleared: the list is empty, and the first
\* section still has a next whose prev it is
MembershipPredicateWitness ==
  /\ ret.op = "bfd_section_list_clear"
  /\ SectionList(Reg, ret.abfd) = << >>
  /\ \E s \in SectionsOf(ret.abfd) :
       /\ sects[s].section.next # NULL
       /\ sects[sects[s].section.next].section.prev = s
       /\ ~bfd_section_removed_from_list(Reg, ret.abfd, s)

=============================================================================
